---- MODULE Spec2Model ----
(***************************************************************************)
(* A model of the beautybot query pipeline: the classification router      *)
(* (services/queryClassification: classifyQuery, processQuery,             *)
(* processUserQuery), the ProductQueryService retrieval pipeline           *)
(* (buildQdrantFilter, semanticSearch, applyPriceFilter, aggregateContext, *)
(* openaiLlmCall, processQuery), the price normaliser                      *)
(* (parsePriceToNumber), answerProductQuestion of QdrantOpenAIService and  *)
(* of the chatbot-with-qdrant.js script, and two concurrent calls of the   *)
(* router sharing the embedding module's OpenAI client.  Around the        *)
(* pipeline: the OpenAIService front end (constructor, connection test,    *)
(* sendMessage), the backend's POST /api/chat handler,                     *)
(* getProductRecommendations and createCollection.                         *)
(*                                                                         *)
(* Representation.  A JavaScript string is a sequence of tokens; a token   *)
(* is a TLA+ string standing for a run of characters.  Price strings are   *)
(* written one character per token so that the parser can look at every    *)
(* character; fixed messages are one token.  Concatenation is \o and the   *)
(* empty string is << >>.  The values undefined and null are two           *)
(* one-token sequences that no string of the model equals.                 *)
(***************************************************************************)
EXTENDS Integers, Sequences, FiniteSets, TLC

VARIABLES
    \* price normaliser harness
    priceStr,       \* the argument of parsePriceToNumber
    price,          \* its result
    ppc,            \* "init" | "parsed"
    \* price post-filter harness
    fResults,       \* the records given to applyPriceFilter
    fMin, fMax,     \* its optional bounds
    fOnce,          \* applyPriceFilter(fResults, fMin, fMax)
    fTwice,         \* applyPriceFilter(fOnce, fMin, fMax)
    fpc,            \* "init" | "once" | "twice"
    \* one call of ProductQueryService.processQuery(query, options)
    qOptions,       \* its options argument
    qpc,            \* "start" | "embedding" | "searching" | "answering" | "done"
    qFilter,        \* const filter = this.buildQdrantFilter(options)
    qRequest,       \* the searchParams given to qdrantClient.search
    qSearchResults, \* what the vector index returned
    qTopResults,    \* filteredResults.slice(0, 5)
    qContext,       \* the aggregated context
    qPrompt,        \* the prompt given to the final-answer LLM
    qReturn,        \* the returned {answer, results}
    qCalls,         \* the external calls issued so far, in order
    \* one call of processQuery(query) or processUserQuery(query) of the
    \* classification router
    rEntry,         \* which of the two entry points was called
    rpc,            \* the call awaited: "classify" | "sql" | "embed" |
                    \* "search" | "answer", or "done"
    rLlmOutput,     \* what the classification LLM call produced
    rClassification,\* what classifyQuery returned
    rFilters,       \* the filters object built for semanticSearch
    rSqlRequest,    \* the request executeDirectSql sent to the datastore
    rSearchRequest, \* the request searchSimilar sent to the vector index
    rDocuments,     \* what semanticSearch returned
    rContext,       \* aggregateContext(documents)
    rPrompt,        \* the prompt of the final-answer call
    rResult,        \* pending, the returned string, or thrown
    rCalls,         \* the external calls issued so far, in order
    \* one call of answerProductQuestion(query), of QdrantOpenAIService or
    \* of the chatbot-with-qdrant.js script
    aImpl,          \* which of the two implementations runs
    apc,            \* the call awaited: "embed" | "search" | "answer", or
                    \* "start", "done"
    aRequest,       \* the request searchProducts sent to the vector index
    aProducts,      \* what searchProducts returned
    aContext,       \* formatProductsAsContext(products)
    aLlmOutcome,    \* how the chat completion of getOpenAIResponse ended
    aResult,        \* pending, the returned string, or thrown
    aCalls,         \* the external calls issued so far, in order
    aLog,           \* the lines written by console.error
    \* two concurrent calls of processQuery / processUserQuery in one
    \* process, with the embedding module they share
    openaiClient,   \* let openaiClient = null of the embedding module
    apiKey,         \* process.env.REACT_APP_OPENAI_API_KEY is set
    cEntry,         \* per call: the entry point called
    cpc,            \* per call: the call awaited, or "start", "done"
    cResponses,     \* per call: how its external calls ended
    cClassification,\* per call: const classification
    cDocuments,     \* per call: what semanticSearch returned
    cPrompt,        \* per call: the prompt of the final-answer call
    cResult,        \* per call: pending, the returned string, or thrown
    cCalls,         \* per call: the external calls issued so far, in order
    cReadFrom,      \* per call: the calls whose written values it has read
    \* the efSearch and searchMode arguments of processQuery (the script
    \* takes them as parameters, the service passes 128 and 'approximate')
    qSearchArgs,
    \* one OpenAIService instance (the chat front end) and the sendMessage
    \* calls on it
    useProductQueryProcessor, \* the field of that name
    productQueryService,      \* "null" | "service"
    threadId,                 \* the field of that name
    connectionTest,           \* "none" | "pending" | "ok" | "failed"
    sConfigured,              \* enableQdrant and the Qdrant settings are given
    sThreads,                 \* the threads created at OpenAI, in order
    spc,                      \* per sendMessage call: where it is
    sPath,                    \* per call: "none" | "pqs" | "assistant"
    sIssued,                  \* per call: the OpenAI calls it issued, each
                              \* with the thread id it passed
    \* one POST /api/chat request to the backend (index.js)
    bRequest,       \* req.body: message, assistantId, threadId
    bpc,            \* where the handler is
    bRunStatus,     \* runStatus.status
    bElapsed,       \* Date.now() - startTime, in ms
    bMessages,      \* whether the thread holds an assistant message
    bCalls,         \* the OpenAI calls issued so far
    bResponses,     \* the HTTP responses sent, in order
    \* one call of getProductRecommendations(productId, limit)
    gProductId, gLimit, gpc,
    gRanking,       \* the points of the collection as a search ranks them
    gHits,          \* what searchSimilar returned
    gResult,        \* pending, the returned list, or thrown
    \* one call of createCollection(collectionName, vectorSize, forceRecreate)
    kCollection,    \* the collection of that name at Qdrant: absent or its size
    kVectorSize, kForceRecreate, \* the arguments
    kpc,
    kCollectionExists, \* let collectionExists
    kForce,            \* forceRecreate, which the function assigns to
    kCalls,            \* the Qdrant calls issued so far, in order
    kResult            \* "pending" | "returned" | "thrown"

priceVars == <<priceStr, price, ppc>>

filterVars == <<fResults, fMin, fMax, fOnce, fTwice, fpc>>

pqsVars == <<qOptions, qSearchArgs, qpc, qFilter, qRequest, qSearchResults, qTopResults,
             qContext, qPrompt, qReturn, qCalls>>

routerVars == <<rEntry, rpc, rLlmOutput, rClassification, rFilters,
                rSqlRequest, rSearchRequest, rDocuments, rContext, rPrompt,
                rResult, rCalls>>

answerVars == <<aImpl, apc, aRequest, aProducts, aContext, aLlmOutcome,
                aResult, aCalls, aLog>>

concurrentVars == <<openaiClient, apiKey, cEntry, cpc, cResponses,
                    cClassification, cDocuments, cPrompt, cResult, cCalls,
                    cReadFrom>>

serviceVars == <<useProductQueryProcessor, productQueryService, threadId,
                 connectionTest, sConfigured, sThreads, spc, sPath, sIssued>>

backendVars == <<bRequest, bpc, bRunStatus, bElapsed, bMessages, bCalls,
                 bResponses>>

recommendVars == <<gProductId, gLimit, gRanking, gpc, gHits, gResult>>

collectionVars == <<kCollection, kVectorSize, kForceRecreate, kpc,
                    kCollectionExists, kForce, kCalls, kResult>>

\* the query pipelines
pipelineVars == <<priceVars, filterVars, pqsVars, routerVars, answerVars,
                  concurrentVars>>

\* the application around them
appVars == <<serviceVars, backendVars, recommendVars, collectionVars>>

vars == <<pipelineVars, appVars>>

----------------------------------------------------------------------------
(* JavaScript values *)

Undefined == <<"<undefined>">>

Null == <<"<null>">>

\* !!v for a string-or-undefined-or-null value
Truthy(v) == v # Undefined /\ v # Null /\ v # << >>

\* a || b
OrElse(a, b) == IF Truthy(a) THEN a ELSE b

\* A number is m / 10^e with e = 0 or m not a multiple of 10 (one
\* representation per value); null and undefined are numbers of no value.
Num(m, e) == [k |-> "num", m |-> m, e |-> e]

NullNum == [k |-> "null"]

UndefinedNum == [k |-> "undefined"]

\* !!n for a number-or-null-or-undefined value: 0 and NaN/null are falsy
TruthyNum(n) == n.k = "num" /\ n.m # 0

RECURSIVE Pow10(_)
Pow10(n) == IF n = 0 THEN 1 ELSE 10 * Pow10(n - 1)

\* a < b on numbers
NumLess(a, b) == a.m * Pow10(b.e) < b.m * Pow10(a.e)

----------------------------------------------------------------------------
(* Price normaliser: ProductQueryService.parsePriceToNumber *)

DigitChars == <<"0", "1", "2", "3", "4", "5", "6", "7", "8", "9">>

IsDigit(c) == \E i \in 1..Len(DigitChars) : DigitChars[i] = c

DigitVal(c) == (CHOOSE i \in 1..Len(DigitChars) : DigitChars[i] = c) - 1

\* the character U+20BA (Turkish lira sign)
LiraSign == "U+20BA"

IsSpace(c) == c = " "

\* s.replace(/TL|U+20BA/g, ''): leftmost non-overlapping matches, no rescan
RECURSIVE RemoveCurrency(_)
RemoveCurrency(s) ==
    IF s = << >> THEN << >>
    ELSE IF Len(s) >= 2 /\ s[1] = "T" /\ s[2] = "L"
         THEN RemoveCurrency(SubSeq(s, 3, Len(s)))
    ELSE IF s[1] = LiraSign THEN RemoveCurrency(Tail(s))
    ELSE <<s[1]>> \o RemoveCurrency(Tail(s))

\* s.trim()
Trim(s) ==
    LET keep == {i \in 1..Len(s) : ~IsSpace(s[i])}
    IN  IF keep = {} THEN << >>
        ELSE SubSeq(s, CHOOSE i \in keep : \A j \in keep : i <= j,
                       CHOOSE i \in keep : \A j \in keep : i >= j)

\* the thousands separators left in place
RemoveDotsForgotten(s) == s

\* s.replace(/\./g, '')
RemoveDots(s) == SelectSeq(s, LAMBDA c : c # ".")

\* s.replace(',', '.'): a string pattern replaces the first occurrence only
ReplaceFirstComma(s) ==
    LET commas == {i \in 1..Len(s) : s[i] = ","}
    IN  IF commas = {} THEN s
        ELSE LET f == CHOOSE i \in commas : \A j \in commas : i <= j
             IN  [i \in 1..Len(s) |-> IF i = f THEN "." ELSE s[i]]

\* the longest prefix of s made of digits
RECURSIVE DigitPrefix(_)
DigitPrefix(s) ==
    IF s # << >> /\ IsDigit(s[1]) THEN <<s[1]>> \o DigitPrefix(Tail(s))
    ELSE << >>

RECURSIVE SkipSpaces(_)
SkipSpaces(s) ==
    IF s # << >> /\ IsSpace(s[1]) THEN SkipSpaces(Tail(s)) ELSE s

RECURSIVE ToNat(_)
ToNat(ds) ==
    IF ds = << >> THEN 0
    ELSE 10 * ToNat(SubSeq(ds, 1, Len(ds) - 1)) + DigitVal(ds[Len(ds)])

RECURSIVE StripTrailingZeros(_)
StripTrailingZeros(ds) ==
    IF ds # << >> /\ ds[Len(ds)] = "0"
    THEN StripTrailingZeros(SubSeq(ds, 1, Len(ds) - 1))
    ELSE ds

\* the number with integer digits ip and fraction digits fp
Decimal(ip, fp) ==
    LET f == StripTrailingZeros(fp)
    IN  Num(ToNat(ip \o f), Len(f))

\* parseFloat(s) followed by isNaN(price) ? null : price.  parseFloat skips
\* leading white space and reads the longest prefix digits [. digits] that
\* holds a digit; anything after it is ignored.  The strings of the model
\* hold no sign, exponent or "Infinity", so those branches are left out.
parseFloatOrNull(s) ==
    LET t    == SkipSpaces(s)
        ip   == DigitPrefix(t)
        rest == SubSeq(t, Len(ip) + 1, Len(t))
        fp   == IF rest # << >> /\ rest[1] = "."
                THEN DigitPrefix(Tail(rest)) ELSE << >>
    IN  IF ip = << >> /\ fp = << >> THEN NullNum ELSE Decimal(ip, fp)

parsePriceToNumber(s) ==
    IF ~Truthy(s) THEN NullNum
    ELSE LET numStr     == Trim(RemoveCurrency(s))
             normalized == ReplaceFirstComma(RemoveDots(numStr))
         IN  parseFloatOrNull(normalized)

----------------------------------------------------------------------------
(* Price strings as the catalogue writes them, one character per token *)

Chars1990TL == <<"1", ".", "9", "9", "0", " ", "T", "L">>

Chars29999TL == <<"2", "9", "9", ",", "9", "9", " ", "T", "L">>

Chars175TL == <<"1", "7", "5", " ", "T", "L">>

Chars50TL == <<"5", "0", " ", "T", "L">>

Chars0TL == <<"0", " ", "T", "L">>

CharsFree == <<"f", "r", "e", "e">>

----------------------------------------------------------------------------
(* Retrieved records: a hit of the vector index is a score and a payload.  *)
(* A score is written in thousandths; an absent payload field is undefined.*)

NoPayload == [k |-> "undefined"]

Payload(id, name, pr, sub) ==
    [ product_id |-> id, name |-> name, price |-> pr, subcategory |-> sub,
      description |-> Undefined, extra_description |-> Undefined,
      mensei |-> Undefined, renk |-> Undefined, url |-> Undefined,
      rating |-> Undefined ]

Hit(payload, score) == [payload |-> payload, score |-> score]

----------------------------------------------------------------------------
(* Price post-filter: ProductQueryService.applyPriceFilter *)

\* the callback of results.filter
PriceKeeps(result, minPrice, maxPrice) ==
    IF result.payload = NoPayload THEN FALSE
    ELSE LET p == parsePriceToNumber(result.payload.price)
         IN  IF ~TruthyNum(p) THEN FALSE
             ELSE IF TruthyNum(minPrice) /\ NumLess(p, minPrice) THEN FALSE
             ELSE IF TruthyNum(maxPrice) /\ NumLess(maxPrice, p) THEN FALSE
             ELSE TRUE

\* the filter written as a loop that splices the rejected record out of the
\* array it is walking: the record after a rejected one is never looked at
RECURSIVE applyPriceFilterSplicing(_, _, _)
applyPriceFilterSplicing(results, minPrice, maxPrice) ==
    IF ~TruthyNum(minPrice) /\ ~TruthyNum(maxPrice) THEN results
    ELSE IF results = << >> THEN << >>
    ELSE IF PriceKeeps(results[1], minPrice, maxPrice)
         THEN <<results[1]>>
              \o applyPriceFilterSplicing(Tail(results), minPrice, maxPrice)
    ELSE IF Len(results) = 1 THEN << >>
    ELSE <<results[2]>>
         \o applyPriceFilterSplicing(SubSeq(results, 3, Len(results)),
                                     minPrice, maxPrice)

applyPriceFilter(results, minPrice, maxPrice) ==
    IF ~TruthyNum(minPrice) /\ ~TruthyNum(maxPrice) THEN results
    ELSE SelectSeq(results, LAMBDA r : PriceKeeps(r, minPrice, maxPrice))

----------------------------------------------------------------------------
(* Filter builder and retriever: ProductQueryService.buildQdrantFilter and *)
(* semanticSearch.  A filter value is undefined or an object; an object    *)
(* carries the set of its own keys, so that {} and {must: [...]} differ.   *)

UndefinedFilter == [t |-> "undefined"]

EmptyObject == [t |-> "object", keys |-> {}, must |-> << >>]

MustFilter(conditions) ==
    [t |-> "object", keys |-> {"must"}, must |-> conditions]

\* Object.keys(o)
ObjectKeys(o) == o.keys

Condition(key, value) == [key |-> key, match |-> [value |-> value]]

\* if (options[key]) conditions.push({key, match: {value: options[key]}})
PushIf(options, key) ==
    IF Truthy(options[key]) THEN <<Condition(key, options[key])>> ELSE << >>

\* the builder returning {must: []} when nothing is populated
buildQdrantFilterEmptyMust(options) ==
    MustFilter(PushIf(options, "subcategory") \o PushIf(options, "mensei")
                   \o PushIf(options, "renk"))

buildQdrantFilter(options) ==
    LET conditions == PushIf(options, "subcategory")
                          \o PushIf(options, "mensei")
                          \o PushIf(options, "renk")
    IN  IF Len(conditions) = 0 THEN UndefinedFilter
        ELSE MustFilter(conditions)

\* the default parameter value: filter: any = {}
FilterParameter(filter) ==
    IF filter = UndefinedFilter THEN EmptyObject ELSE filter

\* the filter passed on as it came
RequestFilterUnchecked(filter) == filter

\* filter: Object.keys(filter).length > 0 ? filter : undefined
RequestFilter(filter) ==
    IF Cardinality(ObjectKeys(filter)) > 0 THEN filter ELSE UndefinedFilter

\* the text-embedding-3-small vector of the query, not looked into
QueryEmbedding == <<"<embedding of the query>">>

\* a request that carries hnsw_ef whatever the search mode
SearchParamsAlwaysEf(filterArg, efSearch, searchMode, topK) ==
    [ vector       |-> QueryEmbedding,
      limit        |-> topK,
      with_payload |-> TRUE,
      filter       |-> RequestFilter(FilterParameter(filterArg)),
      hnsw_ef      |-> Num(efSearch, 0),
      exact        |-> searchMode = "exact" ]

\* the searchParams object built by semanticSearch
SearchParams(filterArg, efSearch, searchMode, topK) ==
    LET filter == FilterParameter(filterArg)
    IN  [ vector       |-> QueryEmbedding,
          limit        |-> topK,
          with_payload |-> TRUE,
          filter       |-> RequestFilter(filter),
          hnsw_ef      |-> IF searchMode = "approximate"
                           THEN Num(efSearch, 0) ELSE UndefinedNum,
          exact        |-> searchMode = "exact" ]

NoRequest == [t |-> "none"]

----------------------------------------------------------------------------
(* The vector index: a ranked catalogue of hits.  A search returns, in     *)
(* rank order, at most `limit` of the hits that satisfy the filter; which  *)
(* of them are near the query is left open.                                *)

CatalogSize == 6

FullCatalog ==
    << Hit([Payload(<<"p1">>, <<"Ruj A">>, Chars50TL, <<"ruj">>)
               EXCEPT !.mensei = <<"TR">>, !.renk = <<"red">>,
                      !.url = <<"https://shop/p1">>], 950),
       Hit([Payload(<<"p2">>, <<"Krem B">>, Chars29999TL, <<"krem">>)
               EXCEPT !.description = <<"dry skin">>], 900),
       Hit(Payload(<<"p3">>, <<"Ruj C">>, Chars1990TL, <<"ruj">>), 850),
       Hit(Payload(<<"p4">>, Undefined, Undefined, Undefined), 800),
       Hit([Payload(<<"p5">>, <<"Ruj E">>, Chars175TL, <<"ruj">>)
               EXCEPT !.mensei = <<"TR">>,
                      !.extra_description = <<"matte">>], 750),
       Hit(NoPayload, 700),
       Hit(Payload(<<"p7">>, <<"Krem G">>, Chars0TL, <<"krem">>), 650),
       Hit(Payload(<<"p8">>, <<"Ruj H">>, CharsFree, <<"ruj">>), 600) >>

Min(a, b) == IF a <= b THEN a ELSE b

Catalog == SubSeq(FullCatalog, 1, Min(CatalogSize, Len(FullCatalog)))

IndexMatches(hit, filter) ==
    \/ filter = UndefinedFilter
    \/ /\ filter.t = "object"
       /\ \A i \in 1..Len(filter.must) :
              /\ hit.payload # NoPayload
              /\ hit.payload[filter.must[i].key] = filter.must[i].match.value

RECURSIVE RankedFrom(_, _)
RankedFrom(S, i) ==
    IF i > Len(Catalog) THEN << >>
    ELSE (IF i \in S THEN <<Catalog[i]>> ELSE << >>) \o RankedFrom(S, i + 1)

\* the last n instead of the first n
TruncateFromEnd(seq, n) == SubSeq(seq, Len(seq) - Min(n, Len(seq)) + 1, Len(seq))

Truncate(seq, n) == SubSeq(seq, 1, Min(n, Len(seq)))

\* the possible answers of qdrantClient.search to a request
IndexAnswers(request) ==
    LET matching == {i \in 1..Len(Catalog) :
                        IndexMatches(Catalog[i], request.filter)}
    IN  {Truncate(RankedFrom(S, 1), request.limit) : S \in SUBSET matching}

----------------------------------------------------------------------------
(* Context aggregator, prompt and final-answer call of                     *)
(* ProductQueryService                                                     *)

TheQuery == <<"<the user's query>">>

\* n.toFixed(3) of a score held in thousandths
ToFixed3(score) ==
    << ToString(score \div 1000), ".", ToString((score \div 100) % 10),
       ToString((score \div 10) % 10), ToString(score % 10) >>

\* if (product[field]) context += `${label}${product[field]}\n`
OptionalLine(label, value) ==
    IF Truthy(value) THEN <<label>> \o value \o <<"\n">> ELSE << >>

\* the body of documents.forEach((doc, index) => ...)
RenderProduct(doc, index) ==
    LET product == doc.payload
    IN  <<"Product ", ToString(index + 1), " (Relevance: ">>
            \o ToFixed3(doc.score) \o <<"):\n">>
            \o <<"Name: ">> \o OrElse(product.name, <<"Unknown">>) \o <<"\n">>
            \o <<"Price: ">> \o OrElse(product.price, <<"Not specified">>)
            \o <<"\n">>
            \o OptionalLine("Subcategory: ", product.subcategory)
            \o OptionalLine("Description: ", product.description)
            \o OptionalLine("Additional Info: ", product.extra_description)
            \o OptionalLine("Origin: ", product.mensei)
            \o OptionalLine("Color: ", product.renk)
            \o OptionalLine("URL: ", product.url)
            \o <<"\n">>

RECURSIVE RenderProductsFrom(_, _)
RenderProductsFrom(documents, index) ==
    IF index >= Len(documents) THEN << >>
    ELSE RenderProduct(documents[index + 1], index)
             \o RenderProductsFrom(documents, index + 1)

ContextHeader == <<"Here is information about relevant products:\n\n">>

\* reading product.name of a hit that has no payload is a TypeError
AggregateThrows(documents) ==
    \E i \in 1..Len(documents) : documents[i].payload = NoPayload

PqsAggregateContext(documents) ==
    ContextHeader \o RenderProductsFrom(documents, 0)

generatePrompt(query, context) ==
    <<"\nYou are a helpful beauty product assistant. [...]\n\nQuery: ">>
        \o query \o <<"\n\nContext:\n">> \o context
        \o <<"\n\nAnswer the query in a helpful, conversational way. [...]\n">>

\* What a chat completion can do: fail (rejected request, no choices), or
\* answer with a content that is null, empty or a text.
LlmOutcomes == {"error", "null", "empty", "text"}

LlmText == <<"<the model's answer>">>

LlmContent(outcome) ==
    CASE outcome = "null"  -> Null
      [] outcome = "empty" -> << >>
      [] outcome = "text"  -> LlmText

\* ProductQueryService.openaiLlmCall: the failure is caught inside
PqsOpenaiLlmCall(outcome) ==
    IF outcome = "error"
    THEN <<"Error generating response. Please try again.">>
    ELSE OrElse(LlmContent(outcome), <<"No response generated.">>)

----------------------------------------------------------------------------
(* ProductQueryService.processQuery(query, options), one step per await *)

EfSearch == 128

TopK == 10

TopN == 5

PqsErrorReturn ==
    [answer |-> <<"Error processing your query. Please try again.">>,
     results |-> << >>]

\* processQuery up to the first await: the filter is built, semanticSearch
\* is entered and asks for the embedding of the query
PqsStart ==
    /\ qpc = "start"
    /\ qFilter' = buildQdrantFilter(qOptions)
    /\ qCalls' = Append(qCalls, "embed")
    /\ qpc' = "embedding"
    /\ UNCHANGED <<qOptions, qSearchArgs, qRequest, qSearchResults, qTopResults, qContext,
                   qPrompt, qReturn>>
    /\ UNCHANGED <<priceVars, filterVars, routerVars, answerVars,
                   concurrentVars, appVars>>

\* the embedding arrives: semanticSearch builds searchParams and searches
PqsEmbedded ==
    /\ qpc = "embedding"
    /\ qRequest' = SearchParams(qFilter, qSearchArgs.efSearch,
                                qSearchArgs.searchMode, TopK)
    /\ qCalls' = Append(qCalls, "search")
    /\ qpc' = "searching"
    /\ UNCHANGED <<qOptions, qSearchArgs, qFilter, qSearchResults, qTopResults, qContext,
                   qPrompt, qReturn>>
    /\ UNCHANGED <<priceVars, filterVars, routerVars, answerVars,
                   concurrentVars, appVars>>

\* the embedding call or the search call rejects: semanticSearch rethrows and
\* processQuery's catch returns the error object
PqsRetrievalFails ==
    /\ qpc \in {"embedding", "searching"}
    /\ qReturn' = PqsErrorReturn
    /\ qpc' = "done"
    /\ UNCHANGED <<qOptions, qSearchArgs, qFilter, qRequest, qSearchResults, qTopResults,
                   qContext, qPrompt, qCalls>>
    /\ UNCHANGED <<priceVars, filterVars, routerVars, answerVars,
                   concurrentVars, appVars>>

\* the index answers: post-filter, truncate, aggregate, build the prompt and
\* call the LLM; a hit without payload makes aggregateContext throw
PqsSearched ==
    /\ qpc = "searching"
    /\ \E searchResults \in IndexAnswers(qRequest) :
          LET filteredResults == applyPriceFilter(searchResults,
                                     qOptions.minPrice, qOptions.maxPrice)
              topResults == Truncate(filteredResults, TopN)
          IN  /\ qSearchResults' = searchResults
              /\ qTopResults' = topResults
              /\ IF AggregateThrows(topResults)
                 THEN /\ qReturn' = PqsErrorReturn
                      /\ qpc' = "done"
                      /\ UNCHANGED <<qContext, qPrompt, qCalls>>
                 ELSE /\ qContext' = PqsAggregateContext(topResults)
                      /\ qPrompt' = generatePrompt(TheQuery,
                                        PqsAggregateContext(topResults))
                      /\ qCalls' = Append(qCalls, "llm")
                      /\ qpc' = "answering"
                      /\ UNCHANGED qReturn
    /\ UNCHANGED <<qOptions, qSearchArgs, qFilter, qRequest>>
    /\ UNCHANGED <<priceVars, filterVars, routerVars, answerVars,
                   concurrentVars, appVars>>

\* the final-answer call settles and processQuery returns
PqsAnswered ==
    /\ qpc = "answering"
    /\ \E outcome \in LlmOutcomes :
          qReturn' = [answer |-> PqsOpenaiLlmCall(outcome),
                      results |-> qTopResults]
    /\ qpc' = "done"
    /\ UNCHANGED <<qOptions, qSearchArgs, qFilter, qRequest, qSearchResults, qTopResults,
                   qContext, qPrompt, qCalls>>
    /\ UNCHANGED <<priceVars, filterVars, routerVars, answerVars,
                   concurrentVars, appVars>>

----------------------------------------------------------------------------
(* The classification router: services/queryClassification                 *)

QueryMode_DIRECT == <<"direct">>

QueryMode_SEMANTIC == <<"semantic">>

QueryMode_NON_RAG == <<"non_rag">>

QueryMode_DECLINED == <<"declined">>

QueryModes ==
    {QueryMode_DIRECT, QueryMode_SEMANTIC, QueryMode_NON_RAG,
     QueryMode_DECLINED}

\* interface QueryClassification, as a parsed JSON object
Classification(mode, sql, semanticType, category, productId, message) ==
    [ t |-> "object", mode |-> mode, sql |-> sql,
      semantic_type |-> semanticType, category |-> category,
      product_id |-> productId, ef_search |-> UndefinedNum,
      distance_metric |-> Undefined, search_mode |-> Undefined,
      message |-> message ]

\* JSON.parse('{}')
EmptyClassification ==
    Classification(Undefined, Undefined, Undefined, Undefined, Undefined,
                   Undefined)

\* JSON.parse('null')
NullClassification == [t |-> "null"]

PendingClassification == [t |-> "pending"]

DeclinedOnError ==
    Classification(QueryMode_DECLINED, Undefined, Undefined, Undefined,
                   Undefined,
                   <<"Sorry, I encountered an error processing your request.">>)

\* What the chat completion asked for a classification can produce: a
\* rejected request, a content that is no JSON, no content at all, the JSON
\* null, or a JSON object of any shape.
ModeVals == QueryModes \cup {<<"chitchat">>, Undefined, Null}

SqlVals ==
    { Undefined, << >>, <<"SELECT name FROM product_inventory">>,
      <<"SELECT name FROM product_inventory ORDER BY rating DESC LIMIT 5">> }

SemanticTypeVals ==
    {Undefined, <<"specific_product">>, <<"category">>, <<"high-level">>}

CategoryVals == {Undefined, <<"ruj">>}

ProductIdVals == {Undefined, <<"p1">>}

MessageVals == {Undefined, << >>, <<"I only answer beauty questions.">>}

ClassificationObjects ==
    { Classification(mode, sql, st, cat, pid, msg) :
          mode \in ModeVals, sql \in SqlVals, st \in SemanticTypeVals,
          cat \in CategoryVals, pid \in ProductIdVals, msg \in MessageVals }

ClassifierOutputs ==
    { [kind |-> "api_error"], [kind |-> "not_json"], [kind |-> "no_content"],
      [kind |-> "json_null"] }
        \cup {[kind |-> "object", value |-> c] : c \in ClassificationObjects}

\* How a piece of code between two awaits ends: it returns a value, throws,
\* or awaits the next external call; arg is the argument of that call (the
\* prompt of an LLM call, the sqlQuery of executeDirectSql).
Return(value) == [k |-> "return", value |-> value]

Throw == [k |-> "throw"]

Await(op, arg) == [k |-> "await", op |-> op, arg |-> arg]

\* llmCall: the content (or '{}' when there is none) is JSON.parsed; a
\* rejected request and a parse error are logged and thrown again
llmCall(output) ==
    CASE output.kind = "api_error"  -> Throw
      [] output.kind = "not_json"   -> Throw
      [] output.kind = "no_content" -> Return(EmptyClassification)
      [] output.kind = "json_null"  -> Return(NullClassification)
      [] output.kind = "object"     -> Return(output.value)

\* classifyQuery: the parsed value is returned as it is (a type cast); only
\* a throw of llmCall gives the declined classification
classifyQuery(output) ==
    IF llmCall(output).k = "throw" THEN DeclinedOnError
    ELSE llmCall(output).value

RouterErrorMessage ==
    <<"I encountered an error while processing your question. Please try again.">>

\* a catch block that throws the error again
TryCatchRethrow(outcome) == outcome

\* a catch block that runs the query again from the classification
TryCatchRetry(outcome) ==
    IF outcome.k = "throw" THEN Await("classify", << >>) ELSE outcome

\* try { ... } catch (error) { return "I encountered an error ..." }
TryCatch(outcome) ==
    IF outcome.k = "throw" THEN Return(RouterErrorMessage) ELSE outcome

NoSqlApology ==
    <<"I understand this requires a direct database query, but I couldn't generate the SQL.">>

NotSureMessage ==
    <<"I'm not sure how to process your question. Could you rephrase it?">>

DeclinedFallback(entry) ==
    IF entry = "processQuery"
    THEN <<"I'm sorry, but I cannot answer that question.">>
    ELSE <<"I'm sorry, but I cannot answer that.">>

\* the refusal always replaced by the fixed fallback
DeclinedAnswerFallbackOnly(message, fallback) == fallback

\* classification.message || "I'm sorry, ..."
DeclinedAnswer(message, fallback) == OrElse(message, fallback)

\* const safeInstructions of processUserQuery
safeInstructions ==
    <<"Answer the following question as an expert on beauty and cosmetics. Ensure that no risky recommendations or advice on human life is provided.">>

NonRagPrompt(entry, query) ==
    IF entry = "processQuery"
    THEN <<"Answer the following question about beauty and cosmetics without using specific product data:\n">>
             \o query
             \o <<"\n\nProvide a helpful, informative response based on general knowledge about beauty and cosmetics.">>
    ELSE safeInstructions \o <<"\nQuestion: ">> \o query

\* the rows of product_inventory, serialised, not looked into
SqlRows == <<"<JSON of the rows>">>

SqlPrompt(entry, data, query) ==
    IF entry = "processQuery"
    THEN <<"Based on the following database results:\n">> \o data
             \o <<"\n\nAnswer the user's question: ">> \o query
    ELSE <<"Based on the following data: ">> \o data
             \o <<"\nAnswer the question: ">> \o query

\* classification.semantic_type || 'high-level' (processQuery),
\* classification.semantic_type || 'high_level' (processUserQuery)
SemanticType(entry, c) ==
    OrElse(c.semantic_type,
           IF entry = "processQuery" THEN <<"high-level">>
           ELSE <<"high_level">>)

generatePromptBasedOnType(semanticType, context, query) ==
    IF semanticType = <<"specific_product">>
    THEN <<"Using the detailed product data:\n">> \o context
             \o <<"\n\nAnswer the question: ">> \o query
    ELSE IF semanticType = <<"category">>
    THEN <<"Based on the product information for this category:\n">>
             \o context \o <<"\n\nAnswer the question: ">> \o query
    ELSE <<"Using comprehensive product data:\n">> \o context
             \o <<"\n\nAnswer the question: ">> \o query

\* the template of documents.map((doc, index) => ...)
RenderDocument(doc, index) ==
    LET payload == doc.payload
    IN  <<"[Document ", ToString(index + 1), "]\nProduct: ">>
            \o OrElse(payload.name, <<"N/A">>)
            \o <<"\nID: ">> \o OrElse(payload.product_id, <<"N/A">>)
            \o <<"\nPrice: ">> \o OrElse(payload.price, <<"N/A">>)
            \o <<"\nCategory: ">> \o OrElse(payload.subcategory, <<"N/A">>)
            \o <<"\nRating: ">> \o OrElse(payload.rating, <<"N/A">>)
            \o <<"\nURL: ">> \o OrElse(payload.url, <<"N/A">>)

\* documents.map(...).join('\n\n'), from the document at `index`
RECURSIVE JoinDocumentsFrom(_, _)
JoinDocumentsFrom(documents, index) ==
    IF index >= Len(documents) THEN << >>
    ELSE RenderDocument(documents[index + 1], index)
             \o (IF index + 1 < Len(documents) THEN <<"\n\n">> ELSE << >>)
             \o JoinDocumentsFrom(documents, index + 1)

\* aggregateContext of queryClassification
aggregateContext(documents) == JoinDocumentsFrom(documents, 0)

\* The filters object the entry point builds for semanticSearch, as the set
\* of its key/value entries.  processQuery: filters.subcategory when the
\* classification has a category.  processUserQuery: {product_id} for
\* 'specific_product', {subcategory} for 'category', {} otherwise.  No
\* filters object is built outside the semantic branch.
NoFilters == {}

FilterEntry(key, value) == [key |-> key, value |-> value]

RouterFilters(entry, c) ==
    IF c = NullClassification \/ c.mode # QueryMode_SEMANTIC THEN NoFilters
    ELSE IF entry = "processQuery"
         THEN IF Truthy(c.category)
              THEN {FilterEntry("subcategory", c.category)} ELSE NoFilters
    ELSE IF SemanticType(entry, c) = <<"specific_product">>
         THEN {FilterEntry("product_id", c.product_id)}
    ELSE IF SemanticType(entry, c) = <<"category">>
         THEN {FilterEntry("subcategory", c.category)}
    ELSE NoFilters

\* executeDirectSql(sqlQuery): the request sent to the datastore is
\* from('product_inventory').select().limit(5), whatever sqlQuery is
SqlLimit == 5

executeDirectSqlRequest(sqlQuery) ==
    [ from |-> <<"product_inventory">>, select |-> <<"*">>,
      limit |-> SqlLimit ]

RouterTopK == 5

\* searchSimilar(queryVector, topK, COLLECTION_NAME): the filters and
\* searchParams given to semanticSearch are not passed on
RouterSearchParams ==
    [ vector |-> QueryEmbedding, limit |-> RouterTopK, with_payload |-> TRUE,
      filter |-> UndefinedFilter, hnsw_ef |-> UndefinedNum, exact |-> FALSE ]

\* openaiLlmCall of queryClassification: a failure is logged and thrown again
openaiLlmCall(outcome) ==
    IF outcome = "error" THEN Throw
    ELSE Return(OrElse(LlmContent(outcome),
                       <<"Sorry, I could not generate an answer.">>))

\* a semantic branch that asks the LLM without retrieving anything
processQueryRouteSkipsRetrieval(c, query) ==
    IF c = NullClassification THEN Throw
    ELSE IF c.mode = QueryMode_SEMANTIC
         THEN Await("answer",
                    generatePromptBasedOnType(SemanticType("processQuery", c),
                                              << >>, query))
    ELSE IF c.mode = QueryMode_DECLINED
         THEN Return(DeclinedAnswer(c.message,
                                    DeclinedFallback("processQuery")))
    ELSE Return(NotSureMessage)

\* a switch whose non_rag case answers with the classifier's message when
\* there is one
processQueryRouteReadsMessage(c, query) ==
    IF c = NullClassification THEN Throw
    ELSE IF c.mode = QueryMode_DIRECT
         THEN IF ~Truthy(c.sql) THEN Return(NoSqlApology)
              ELSE Await("sql", c.sql)
    ELSE IF c.mode = QueryMode_SEMANTIC THEN Await("embed", << >>)
    ELSE IF c.mode = QueryMode_NON_RAG
         THEN IF Truthy(c.message) THEN Return(c.message)
              ELSE Await("answer", NonRagPrompt("processQuery", query))
    ELSE IF c.mode = QueryMode_DECLINED
         THEN Return(DeclinedAnswer(c.message,
                                    DeclinedFallback("processQuery")))
    ELSE Return(NotSureMessage)

\* processQuery after `await classifyQuery(query)`: the switch on the mode,
\* up to the next await or return
processQueryRoute(c, query) ==
    IF c = NullClassification THEN Throw
    ELSE IF c.mode = QueryMode_DIRECT
         THEN IF ~Truthy(c.sql) THEN Return(NoSqlApology)
              ELSE Await("sql", c.sql)
    ELSE IF c.mode = QueryMode_SEMANTIC THEN Await("embed", << >>)
    ELSE IF c.mode = QueryMode_NON_RAG
         THEN Await("answer", NonRagPrompt("processQuery", query))
    ELSE IF c.mode = QueryMode_DECLINED
         THEN Return(DeclinedAnswer(c.message,
                                    DeclinedFallback("processQuery")))
    ELSE Return(NotSureMessage)

\* a final else that answers from general knowledge instead of refusing
processUserQueryRouteElseAnswers(c, query) ==
    IF c = NullClassification THEN Throw
    ELSE IF c.mode = QueryMode_DECLINED
         THEN Return(DeclinedAnswer(c.message,
                                    DeclinedFallback("processUserQuery")))
    ELSE Await("answer", NonRagPrompt("processUserQuery", query))

\* processUserQuery after `await classifyQuery(query)`: the if-else chain
processUserQueryRoute(c, query) ==
    IF c = NullClassification THEN Throw
    ELSE IF c.mode = QueryMode_DECLINED
         THEN Return(DeclinedAnswer(c.message,
                                    DeclinedFallback("processUserQuery")))
    ELSE IF c.mode = QueryMode_DIRECT THEN Await("sql", OrElse(c.sql, << >>))
    ELSE IF c.mode = QueryMode_SEMANTIC THEN Await("embed", << >>)
    ELSE IF c.mode = QueryMode_NON_RAG
         THEN Await("answer", NonRagPrompt("processUserQuery", query))
    ELSE Return(DeclinedFallback("processUserQuery"))

Route(entry, c, query) ==
    IF entry = "processQuery" THEN processQueryRoute(c, query)
    ELSE processUserQueryRoute(c, query)

PendingResult == [k |-> "pending"]

\* the entry point goes on as `outcome` says: it returns (or throws) and is
\* done, or it issues the next external call and awaits it
Continue(outcome) ==
    /\ rpc' = IF outcome.k = "await" THEN outcome.op ELSE "done"
    /\ rResult' = CASE outcome.k = "return" ->
                           [k |-> "returned", value |-> outcome.value]
                    [] outcome.k = "throw" -> [k |-> "thrown"]
                    [] outcome.k = "await" -> rResult
    /\ rCalls' = IF outcome.k = "await" THEN Append(rCalls, outcome.op)
                 ELSE rCalls
    /\ rPrompt' = IF outcome.k = "await" /\ outcome.op = "answer"
                  THEN outcome.arg ELSE rPrompt
    /\ rSqlRequest' = IF outcome.k = "await" /\ outcome.op = "sql"
                      THEN executeDirectSqlRequest(outcome.arg)
                      ELSE rSqlRequest
    /\ rSearchRequest' = IF outcome.k = "await" /\ outcome.op = "search"
                         THEN RouterSearchParams ELSE rSearchRequest

\* the entry point is called: classifyQuery sends the classification prompt
RouterStart ==
    /\ rpc = "start"
    /\ rpc' = "classify"
    /\ rCalls' = Append(rCalls, "classify")
    /\ UNCHANGED <<rEntry, rLlmOutput, rClassification, rFilters, rSqlRequest,
                   rSearchRequest, rDocuments, rContext, rPrompt, rResult>>
    /\ UNCHANGED <<priceVars, filterVars, pqsVars, answerVars, concurrentVars,
                   appVars>>

\* the classification call settles: classifyQuery returns and the entry
\* point routes on the mode
RouterClassified ==
    /\ rpc = "classify"
    /\ \E output \in ClassifierOutputs :
          /\ rLlmOutput' = output
          /\ rClassification' = classifyQuery(output)
          /\ rFilters' = RouterFilters(rEntry, classifyQuery(output))
          /\ Continue(TryCatch(Route(rEntry, classifyQuery(output), TheQuery)))
    /\ UNCHANGED <<rEntry, rDocuments, rContext>>
    /\ UNCHANGED <<priceVars, filterVars, pqsVars, answerVars, concurrentVars,
                   appVars>>

\* executeDirectSql settles: the rows go into the prompt of the final-answer
\* call, an error of the datastore is thrown again
RouterSqlReturned ==
    /\ rpc = "sql"
    /\ \E ok \in BOOLEAN :
          Continue(TryCatch(IF ok
                            THEN Await("answer",
                                       SqlPrompt(rEntry, SqlRows, TheQuery))
                            ELSE Throw))
    /\ UNCHANGED <<rEntry, rLlmOutput, rClassification, rFilters, rDocuments,
                   rContext>>
    /\ UNCHANGED <<priceVars, filterVars, pqsVars, answerVars, concurrentVars,
                   appVars>>

\* generateEmbedding settles: semanticSearch goes on to searchSimilar
RouterEmbedded ==
    /\ rpc = "embed"
    /\ \E ok \in BOOLEAN :
          Continue(TryCatch(IF ok THEN Await("search", << >>) ELSE Throw))
    /\ UNCHANGED <<rEntry, rLlmOutput, rClassification, rFilters, rDocuments,
                   rContext>>
    /\ UNCHANGED <<priceVars, filterVars, pqsVars, answerVars, concurrentVars,
                   appVars>>

\* searchSimilar settles with the hits: they are aggregated and the prompt
\* of the final-answer call is built
RouterSearched ==
    /\ rpc = "search"
    /\ \E documents \in IndexAnswers(rSearchRequest) :
          /\ rDocuments' = documents
          /\ IF AggregateThrows(documents)
             THEN /\ Continue(TryCatch(Throw))
                  /\ UNCHANGED rContext
             ELSE /\ rContext' = aggregateContext(documents)
                  /\ Continue(TryCatch(Await("answer",
                         generatePromptBasedOnType(
                             SemanticType(rEntry, rClassification),
                             aggregateContext(documents), TheQuery))))
    /\ UNCHANGED <<rEntry, rLlmOutput, rClassification, rFilters>>
    /\ UNCHANGED <<priceVars, filterVars, pqsVars, answerVars, concurrentVars,
                   appVars>>

\* searchSimilar rejects
RouterSearchFails ==
    /\ rpc = "search"
    /\ Continue(TryCatch(Throw))
    /\ UNCHANGED <<rEntry, rLlmOutput, rClassification, rFilters, rDocuments,
                   rContext>>
    /\ UNCHANGED <<priceVars, filterVars, pqsVars, answerVars, concurrentVars,
                   appVars>>

\* the final-answer call settles and the entry point returns
RouterAnswered ==
    /\ rpc = "answer"
    /\ \E outcome \in LlmOutcomes : Continue(TryCatch(openaiLlmCall(outcome)))
    /\ UNCHANGED <<rEntry, rLlmOutput, rClassification, rFilters, rDocuments,
                   rContext>>
    /\ UNCHANGED <<priceVars, filterVars, pqsVars, answerVars, concurrentVars,
                   appVars>>

----------------------------------------------------------------------------
(* answerProductQuestion(query): search, format, answer.  It is written    *)
(* twice, as a method of QdrantOpenAIService and as a function of the      *)
(* chatbot-with-qdrant.js script; the two differ in getOpenAIResponse.     *)

AnswerImpls == {"QdrantOpenAIService", "chatbot-with-qdrant.js"}

\* `${value}` in a template literal
Interpolate(value) ==
    IF value = Undefined THEN <<"undefined">>
    ELSE IF value = Null THEN <<"null">>
    ELSE value

\* the body of products.forEach((product, index) => ...)
FormatProduct(product, index) ==
    <<"Product ", ToString(index + 1), ": ">>
        \o Interpolate(product.payload.name) \o <<"\n">>
        \o <<"Category: ">> \o Interpolate(product.payload.subcategory)
        \o <<"\n">>
        \o <<"Price: ">> \o Interpolate(product.payload.price) \o <<"\n">>
        \o (IF Truthy(product.payload.rating)
            THEN <<"Rating: ">> \o product.payload.rating \o <<"/5\n">>
            ELSE << >>)
        \o <<"URL: ">> \o Interpolate(product.payload.url) \o <<"\n\n">>

RECURSIVE FormatProductsFrom(_, _)
FormatProductsFrom(products, index) ==
    IF index >= Len(products) THEN << >>
    ELSE FormatProduct(products[index + 1], index)
             \o FormatProductsFrom(products, index + 1)

formatProductsAsContext(products) ==
    IF Len(products) = 0 THEN <<"No relevant products found.">>
    ELSE <<"Here are some relevant products that might help answer the question:\n\n">>
             \o FormatProductsFrom(products, 0)

AnswerLimit == 5

\* the request of searchProducts(query, limit = 5)
searchProductsRequest ==
    [ vector |-> QueryEmbedding, limit |-> AnswerLimit, with_payload |-> TRUE,
      filter |-> UndefinedFilter, hnsw_ef |-> UndefinedNum, exact |-> FALSE ]

AnswerErrorMessage ==
    <<"Sorry, I encountered an error while processing your request.">>

\* getOpenAIResponse: a failure is caught and answered with the error
\* message; the service replaces a falsy content, the script returns the
\* content as it is
getOpenAIResponse(impl, outcome) ==
    IF outcome = "error" THEN AnswerErrorMessage
    ELSE IF impl = "QdrantOpenAIService"
         THEN OrElse(LlmContent(outcome), <<"No response generated.">>)
    ELSE LlmContent(outcome)

\* answerProductQuestion is called: searchProducts asks for the embedding
AnswerStart ==
    /\ apc = "start"
    /\ apc' = "embed"
    /\ aCalls' = Append(aCalls, "embed")
    /\ UNCHANGED <<aImpl, aRequest, aProducts, aContext, aLlmOutcome, aResult,
                   aLog>>
    /\ UNCHANGED <<priceVars, filterVars, pqsVars, routerVars, concurrentVars,
                   appVars>>

\* the catch block of searchProducts: the error is logged and the empty list
\* returned; answerProductQuestion formats it and asks the LLM
SearchProductsCaught(logged) ==
    /\ aLog' = aLog \o logged \o <<"Error searching products:">>
    /\ aProducts' = << >>
    /\ aContext' = formatProductsAsContext(<< >>)
    /\ aCalls' = Append(aCalls, "answer")
    /\ apc' = "answer"
    /\ UNCHANGED <<aImpl, aRequest, aLlmOutcome, aResult>>

\* generateEmbedding settles: the search is sent, or the error (logged and
\* thrown again by generateEmbedding) is caught by searchProducts
AnswerEmbedded ==
    /\ apc = "embed"
    /\ \E ok \in BOOLEAN :
          IF ok
          THEN /\ aRequest' = searchProductsRequest
               /\ aCalls' = Append(aCalls, "search")
               /\ apc' = "search"
               /\ UNCHANGED <<aImpl, aProducts, aContext, aLlmOutcome, aResult,
                              aLog>>
          ELSE SearchProductsCaught(<<"Error generating OpenAI embedding:">>)
    /\ UNCHANGED <<priceVars, filterVars, pqsVars, routerVars, concurrentVars,
                   appVars>>

\* qdrantClient.search settles with the hits: they are formatted (a hit
\* without payload makes formatProductsAsContext throw, and nothing catches
\* it) and the LLM is asked
AnswerSearched ==
    /\ apc = "search"
    /\ \E products \in IndexAnswers(aRequest) :
          /\ aProducts' = products
          /\ IF AggregateThrows(products)
             THEN /\ aResult' = [k |-> "thrown"]
                  /\ apc' = "done"
                  /\ UNCHANGED <<aContext, aCalls>>
             ELSE /\ aContext' = formatProductsAsContext(products)
                  /\ aCalls' = Append(aCalls, "answer")
                  /\ apc' = "answer"
                  /\ UNCHANGED aResult
    /\ UNCHANGED <<aImpl, aRequest, aLlmOutcome, aLog>>
    /\ UNCHANGED <<priceVars, filterVars, pqsVars, routerVars, concurrentVars,
                   appVars>>

\* qdrantClient.search rejects
AnswerSearchFails ==
    /\ apc = "search"
    /\ SearchProductsCaught(<< >>)
    /\ UNCHANGED <<priceVars, filterVars, pqsVars, routerVars, concurrentVars,
                   appVars>>

\* the chat completion settles and answerProductQuestion returns
AnswerAnswered ==
    /\ apc = "answer"
    /\ \E outcome \in LlmOutcomes :
          /\ aLlmOutcome' = outcome
          /\ aResult' = [k |-> "returned",
                         value |-> getOpenAIResponse(aImpl, outcome)]
    /\ apc' = "done"
    /\ UNCHANGED <<aImpl, aRequest, aProducts, aContext, aCalls, aLog>>
    /\ UNCHANGED <<priceVars, filterVars, pqsVars, routerVars, concurrentVars,
                   appVars>>

----------------------------------------------------------------------------
(* Two calls of the router's entry points running concurrently in one      *)
(* process.  JavaScript runs each piece of code between two awaits to its  *)
(* end, so the two calls interleave at their awaits.  Each call has its    *)
(* own locals; the module-level openai and supabase clients are constants  *)
(* set when the module is loaded; the embedding module (embeddings.cjs)    *)
(* keeps its OpenAI client in the module-level variable openaiClient,      *)
(* which getOpenAIClient sets on its first call.                           *)

Calls == {"a", "b"}

\* let openaiClient = null
NoClient == [k |-> "null"]

\* new OpenAI({apiKey, ...}), marked with the call that created it
NewClient(i) == [k |-> "client", createdBy |-> i]

\* the local `classification` as a variable declared at module level, one
\* for all calls
ClassificationSlotModuleLevel(i) == "a"

\* const classification = await classifyQuery(query): a local of the call
ClassificationSlot(i) == i

\* how the external calls of one call of the entry point ended
NoResponses ==
    [ classify |-> [kind |-> "pending"], sql |-> "pending",
      embed |-> "pending", search |-> "pending", documents |-> << >>,
      answer |-> "pending" ]

\* the outputs of the classification call and the hits of the index that
\* the concurrent calls are run with
ConcurrentOutputs ==
    { [kind |-> "api_error"],
      [kind |-> "object",
       value |-> Classification(QueryMode_DIRECT,
                     <<"SELECT name FROM product_inventory">>, Undefined,
                     Undefined, Undefined, Undefined)],
      [kind |-> "object",
       value |-> Classification(QueryMode_SEMANTIC, Undefined,
                     <<"category">>, <<"ruj">>, Undefined, Undefined)],
      [kind |-> "object",
       value |-> Classification(QueryMode_SEMANTIC, Undefined,
                     <<"specific_product">>, Undefined, <<"p1">>, Undefined)],
      [kind |-> "object",
       value |-> Classification(QueryMode_NON_RAG, Undefined, Undefined,
                     Undefined, Undefined, Undefined)],
      [kind |-> "object",
       value |-> Classification(QueryMode_DECLINED, Undefined, Undefined,
                     Undefined, Undefined,
                     <<"I only answer beauty questions.">>)],
      \* the same again with the fields of the other modes filled in
      [kind |-> "object",
       value |-> Classification(QueryMode_DIRECT,
                     <<"SELECT name FROM product_inventory">>,
                     <<"category">>, <<"krem">>, <<"p2">>,
                     <<"Here is what I found.">>)],
      [kind |-> "object",
       value |-> Classification(QueryMode_SEMANTIC,
                     <<"SELECT price FROM product_inventory">>,
                     <<"category">>, <<"ruj">>, Undefined,
                     <<"Here is what I found.">>)],
      [kind |-> "object",
       value |-> Classification(QueryMode_NON_RAG,
                     <<"SELECT price FROM product_inventory">>,
                     <<"category">>, <<"krem">>, <<"p2">>,
                     <<"Here is what I found.">>)],
      [kind |-> "object",
       value |-> Classification(QueryMode_DECLINED,
                     <<"SELECT price FROM product_inventory">>,
                     <<"specific_product">>, <<"krem">>, <<"p2">>,
                     <<"I only answer beauty questions.">>)] }

ConcurrentHits == {d \in IndexAnswers(RouterSearchParams) : Len(d) <= 1}

\* the entry point after the call it awaited has settled as `resp` says
Resume(entry, c, op, resp) ==
    CASE op = "sql" ->
             TryCatch(IF resp.sql = "ok"
                      THEN Await("answer", SqlPrompt(entry, SqlRows, TheQuery))
                      ELSE Throw)
      [] op = "embed" ->
             TryCatch(IF resp.embed = "ok" THEN Await("search", << >>)
                      ELSE Throw)
      [] op = "search" ->
             TryCatch(IF resp.search = "ok" /\ ~AggregateThrows(resp.documents)
                      THEN Await("answer",
                               generatePromptBasedOnType(SemanticType(entry, c),
                                   aggregateContext(resp.documents), TheQuery))
                      ELSE Throw)
      [] op = "answer" -> TryCatch(openaiLlmCall(resp.answer))

\* one external call with its argument
Call(op, arg) == [op |-> op, arg |-> arg]

\* the call goes on as `outcome` says; generateEmbedding first asks
\* getOpenAIClient for the client, which creates it when there is none and
\* the API key is set, and hands out the one there is otherwise
CContinue(i, outcome) ==
    /\ cpc' = [cpc EXCEPT ![i] = IF outcome.k = "await" THEN outcome.op
                                 ELSE "done"]
    /\ cResult' = [cResult EXCEPT ![i] =
                      CASE outcome.k = "return" ->
                               [k |-> "returned", value |-> outcome.value]
                        [] outcome.k = "throw" -> [k |-> "thrown"]
                        [] outcome.k = "await" -> cResult[i]]
    /\ cCalls' = [cCalls EXCEPT ![i] =
                     IF outcome.k = "await"
                     THEN Append(cCalls[i], Call(outcome.op, outcome.arg))
                     ELSE cCalls[i]]
    /\ cPrompt' = [cPrompt EXCEPT ![i] =
                      IF outcome.k = "await" /\ outcome.op = "answer"
                      THEN outcome.arg ELSE cPrompt[i]]
    /\ IF outcome.k = "await" /\ outcome.op = "embed"
       THEN IF openaiClient = NoClient
            THEN /\ openaiClient' = IF apiKey THEN NewClient(i) ELSE NoClient
                 /\ UNCHANGED cReadFrom
            ELSE /\ cReadFrom' = [cReadFrom EXCEPT ![i] =
                                     cReadFrom[i] \cup {openaiClient.createdBy}]
                 /\ UNCHANGED openaiClient
       ELSE UNCHANGED <<openaiClient, cReadFrom>>

\* the entry point is called
CStart(i) ==
    /\ cpc[i] = "start"
    /\ cpc' = [cpc EXCEPT ![i] = "classify"]
    /\ cCalls' = [cCalls EXCEPT ![i] = Append(cCalls[i],
                                              Call("classify", TheQuery))]
    /\ UNCHANGED <<openaiClient, apiKey, cEntry, cResponses, cClassification,
                   cDocuments, cPrompt, cResult, cReadFrom>>
    /\ UNCHANGED <<priceVars, filterVars, pqsVars, routerVars, answerVars,
                   appVars>>

\* the classification call of call i settles
CClassified(i) ==
    /\ cpc[i] = "classify"
    /\ \E output \in ConcurrentOutputs :
          /\ cResponses' = [cResponses EXCEPT ![i].classify = output]
          /\ cClassification' = [cClassification EXCEPT
                                    ![ClassificationSlot(i)] =
                                        classifyQuery(output)]
          /\ CContinue(i, TryCatch(Route(cEntry[i], classifyQuery(output),
                                         TheQuery)))
    /\ UNCHANGED <<apiKey, cEntry, cDocuments>>
    /\ UNCHANGED <<priceVars, filterVars, pqsVars, routerVars, answerVars,
                   appVars>>

\* executeDirectSql of call i settles
CSqlReturned(i) ==
    /\ cpc[i] = "sql"
    /\ \E r \in {"ok", "error"} :
          /\ cResponses' = [cResponses EXCEPT ![i].sql = r]
          /\ CContinue(i, Resume(cEntry[i],
                                 cClassification[ClassificationSlot(i)], "sql",
                                 [cResponses[i] EXCEPT !.sql = r]))
    /\ UNCHANGED <<apiKey, cEntry, cClassification, cDocuments>>
    /\ UNCHANGED <<priceVars, filterVars, pqsVars, routerVars, answerVars,
                   appVars>>

\* generateEmbedding of call i settles; without an API key getOpenAIClient
\* has thrown
CEmbedded(i) ==
    /\ cpc[i] = "embed"
    /\ \E r \in {"ok", "error"} :
          /\ apiKey \/ r = "error"
          /\ cResponses' = [cResponses EXCEPT ![i].embed = r]
          /\ CContinue(i, Resume(cEntry[i],
                                 cClassification[ClassificationSlot(i)],
                                 "embed", [cResponses[i] EXCEPT !.embed = r]))
    /\ UNCHANGED <<apiKey, cEntry, cClassification, cDocuments>>
    /\ UNCHANGED <<priceVars, filterVars, pqsVars, routerVars, answerVars,
                   appVars>>

\* searchSimilar of call i settles, with hits or with an error
CSearched(i) ==
    /\ cpc[i] = "search"
    /\ \E r \in {"ok", "error"} :
          \E documents \in (IF r = "ok" THEN ConcurrentHits ELSE {<< >>}) :
              /\ cResponses' = [cResponses EXCEPT ![i].search = r,
                                                  ![i].documents = documents]
              /\ cDocuments' = [cDocuments EXCEPT ![i] = documents]
              /\ CContinue(i, Resume(cEntry[i],
                                     cClassification[ClassificationSlot(i)],
                                     "search",
                                     [cResponses[i] EXCEPT
                                          !.search = r,
                                          !.documents = documents]))
    /\ UNCHANGED <<apiKey, cEntry, cClassification>>
    /\ UNCHANGED <<priceVars, filterVars, pqsVars, routerVars, answerVars,
                   appVars>>

\* the final-answer call of call i settles
CAnswered(i) ==
    /\ cpc[i] = "answer"
    /\ \E outcome \in LlmOutcomes :
          /\ cResponses' = [cResponses EXCEPT ![i].answer = outcome]
          /\ CContinue(i, Resume(cEntry[i],
                                 cClassification[ClassificationSlot(i)],
                                 "answer",
                                 [cResponses[i] EXCEPT !.answer = outcome]))
    /\ UNCHANGED <<apiKey, cEntry, cClassification, cDocuments>>
    /\ UNCHANGED <<priceVars, filterVars, pqsVars, routerVars, answerVars,
                   appVars>>

----------------------------------------------------------------------------
(* OpenAIService: the constructor, the connection test it starts without   *)
(* awaiting it, and sendMessage calls that may overlap on one instance.    *)

NullThread == [t |-> "null"]

Thread(n) == [t |-> "thread", n |-> n]

\* the fields once the constructor has run; configured stands for
\* config.enableQdrant && config.qdrantUrl && config.qdrantApiKey &&
\* config.qdrantCollection.  testQdrantConnection() is called, not awaited:
\* it runs up to its await and the constructor goes on.
Constructor(configured) ==
    IF configured
    THEN [ productQueryService      |-> "service",
           connectionTest           |-> "pending",
           useProductQueryProcessor |-> TRUE ]
    ELSE [ productQueryService      |-> "null",
           connectionTest           |-> "none",
           useProductQueryProcessor |-> FALSE ]

RunStatuses == {"in_progress", "completed", "failed"}

\* call i issues `op` on this.threadId as it is now
Issue(i, op) ==
    sIssued' = [sIssued EXCEPT
                   ![i] = @ \cup {[op |-> op, thread |-> threadId]}]

serviceRest == <<pipelineVars, backendVars, recommendVars, collectionVars>>

\* testQdrantConnection resumes after `await testConnection()`, which
\* resolves to true or to false (it catches what it throws)
TestConnectionReturns ==
    /\ connectionTest = "pending"
    /\ \E connectionOk \in BOOLEAN :
          /\ connectionTest' = IF connectionOk THEN "ok" ELSE "failed"
          /\ useProductQueryProcessor' = connectionOk
    /\ UNCHANGED <<productQueryService, threadId, sConfigured, sThreads,
                   spc, sPath, sIssued>>
    /\ UNCHANGED serviceRest

\* sendMessage up to its first await
SendStart(i) ==
    /\ spc[i] = "idle"
    /\ IF useProductQueryProcessor /\ productQueryService # "null"
       THEN /\ sPath' = [sPath EXCEPT ![i] = "pqs"]
            /\ spc' = [spc EXCEPT ![i] = "processQuery"]
            /\ UNCHANGED sIssued
       ELSE /\ sPath' = [sPath EXCEPT ![i] = "assistant"]
            /\ IF threadId = NullThread
               THEN /\ spc' = [spc EXCEPT ![i] = "createThread"]
                    /\ UNCHANGED sIssued
               ELSE /\ spc' = [spc EXCEPT ![i] = "messagesCreate"]
                    /\ Issue(i, "messages.create")
    /\ UNCHANGED <<useProductQueryProcessor, productQueryService, threadId,
                   connectionTest, sConfigured, sThreads>>
    /\ UNCHANGED serviceRest

\* productQueryService.processQuery(content) returns (it never throws)
SendProcessQueryReturns(i) ==
    /\ spc[i] = "processQuery"
    /\ spc' = [spc EXCEPT ![i] = "returned"]
    /\ UNCHANGED <<useProductQueryProcessor, productQueryService, threadId,
                   connectionTest, sConfigured, sThreads, sPath, sIssued>>
    /\ UNCHANGED serviceRest

\* createThread resumes after `await this.openai.beta.threads.create()`
SendThreadCreated(i) ==
    /\ spc[i] = "createThread"
    /\ sThreads' = Append(sThreads, i)
    /\ threadId' = Thread(Len(sThreads) + 1)
    /\ spc' = [spc EXCEPT ![i] = "threadCreated"]
    /\ UNCHANGED <<useProductQueryProcessor, productQueryService,
                   connectionTest, sConfigured, sPath, sIssued>>
    /\ UNCHANGED serviceRest

\* sendMessage resumes after `await this.createThread()`
SendPostMessage(i) ==
    /\ spc[i] = "threadCreated"
    /\ Issue(i, "messages.create")
    /\ spc' = [spc EXCEPT ![i] = "messagesCreate"]
    /\ UNCHANGED <<useProductQueryProcessor, productQueryService, threadId,
                   connectionTest, sConfigured, sThreads, sPath>>
    /\ UNCHANGED serviceRest

SendMessagePosted(i) ==
    /\ spc[i] = "messagesCreate"
    /\ Issue(i, "runs.create")
    /\ spc' = [spc EXCEPT ![i] = "runsCreate"]
    /\ UNCHANGED <<useProductQueryProcessor, productQueryService, threadId,
                   connectionTest, sConfigured, sThreads, sPath>>
    /\ UNCHANGED serviceRest

SendRunCreated(i) ==
    /\ spc[i] = "runsCreate"
    /\ Issue(i, "runs.retrieve")
    /\ spc' = [spc EXCEPT ![i] = "retrieve"]
    /\ UNCHANGED <<useProductQueryProcessor, productQueryService, threadId,
                   connectionTest, sConfigured, sThreads, sPath>>
    /\ UNCHANGED serviceRest

\* runs.retrieve returns: the loop goes on until completed or failed, with
\* no limit on its duration
SendRetrieved(i) ==
    /\ spc[i] = "retrieve"
    /\ \E status \in RunStatuses :
          CASE status = "completed" ->
                  /\ Issue(i, "messages.list")
                  /\ spc' = [spc EXCEPT ![i] = "list"]
            [] status = "failed" ->
                  /\ spc' = [spc EXCEPT ![i] = "thrown"]
                  /\ UNCHANGED sIssued
            [] OTHER ->
                  /\ spc' = [spc EXCEPT ![i] = "sleep"]
                  /\ UNCHANGED sIssued
    /\ UNCHANGED <<useProductQueryProcessor, productQueryService, threadId,
                   connectionTest, sConfigured, sThreads, sPath>>
    /\ UNCHANGED serviceRest

\* the one-second timer of the loop fires
SendSlept(i) ==
    /\ spc[i] = "sleep"
    /\ Issue(i, "runs.retrieve")
    /\ spc' = [spc EXCEPT ![i] = "retrieve"]
    /\ UNCHANGED <<useProductQueryProcessor, productQueryService, threadId,
                   connectionTest, sConfigured, sThreads, sPath>>
    /\ UNCHANGED serviceRest

\* messages.list returns: the latest assistant message, or null
SendListed(i) ==
    /\ spc[i] = "list"
    /\ spc' = [spc EXCEPT ![i] = "returned"]
    /\ UNCHANGED <<useProductQueryProcessor, productQueryService, threadId,
                   connectionTest, sConfigured, sThreads, sPath, sIssued>>
    /\ UNCHANGED serviceRest

\* an OpenAI call rejects: createThread and sendMessage log and rethrow
SendCallFails(i) ==
    /\ spc[i] \in {"createThread", "messagesCreate", "runsCreate",
                   "retrieve", "list"}
    /\ spc' = [spc EXCEPT ![i] = "thrown"]
    /\ UNCHANGED <<useProductQueryProcessor, productQueryService, threadId,
                   connectionTest, sConfigured, sThreads, sPath, sIssued>>
    /\ UNCHANGED serviceRest

----------------------------------------------------------------------------
(* The backend's POST /api/chat handler.  Time is in milliseconds since    *)
(* startTime; the handler sees it only through the comparison with         *)
(* TIMEOUT_MS, so the clock stops counting at MaxClock.                    *)

TIMEOUT_MS == 30000

PollDelay == 1000

MaxClock == 40000

\* how long a runs.retrieve call may take
Latencies == {0, 4000}

MessageKinds == {"none", "text", "image"}

\* a timer that never reports the time-out
TimedOutNever(elapsed) == FALSE

\* Date.now() - startTime > TIMEOUT_MS
TimedOut(elapsed) == elapsed > TIMEOUT_MS

Advance(elapsed, d) == Min(elapsed + d, MaxClock)

\* return res.status(status).json({ error }), or res.json(...) for 200
Respond(status, error) ==
    /\ bResponses' = Append(bResponses, [status |-> status, error |-> error])
    /\ bpc' = "responded"

BIssue(op) == bCalls' = bCalls \cup {op}

\* the head of the poll loop and what follows it
PollLoop(status, elapsed) ==
    CASE status = "completed" ->
            /\ BIssue("messages.list")
            /\ bpc' = "list"
            /\ UNCHANGED bResponses
      [] status = "failed" ->
            /\ Respond(500, "Assistant run failed")
            /\ UNCHANGED bCalls
      [] OTHER ->
            IF TimedOut(elapsed)
            THEN /\ Respond(504, "Request timed out")
                 /\ UNCHANGED bCalls
            ELSE /\ bpc' = "sleep"
                 /\ UNCHANGED <<bCalls, bResponses>>

backendRest == <<pipelineVars, serviceVars, recommendVars, collectionVars>>

\* the handler up to its first await
BReceive ==
    /\ bpc = "received"
    /\ IF ~bRequest.message
       THEN Respond(400, "Message is required") /\ UNCHANGED bCalls
       ELSE IF ~bRequest.assistantId
       THEN Respond(400, "Assistant ID is required") /\ UNCHANGED bCalls
       ELSE IF ~bRequest.threadId
       THEN /\ BIssue("threads.create")
            /\ bpc' = "threadsCreate"
            /\ UNCHANGED bResponses
       ELSE /\ BIssue("messages.create")
            /\ bpc' = "messagesCreate"
            /\ UNCHANGED bResponses
    /\ UNCHANGED <<bRequest, bRunStatus, bElapsed, bMessages>>
    /\ UNCHANGED backendRest

BThreadCreated ==
    /\ bpc = "threadsCreate"
    /\ BIssue("messages.create")
    /\ bpc' = "messagesCreate"
    /\ UNCHANGED <<bRequest, bRunStatus, bElapsed, bMessages, bResponses>>
    /\ UNCHANGED backendRest

BMessagePosted ==
    /\ bpc = "messagesCreate"
    /\ BIssue("runs.create")
    /\ bpc' = "runsCreate"
    /\ UNCHANGED <<bRequest, bRunStatus, bElapsed, bMessages, bResponses>>
    /\ UNCHANGED backendRest

BRunCreated ==
    /\ bpc = "runsCreate"
    /\ BIssue("runs.retrieve")
    /\ bpc' = "firstRetrieve"
    /\ UNCHANGED <<bRequest, bRunStatus, bElapsed, bMessages, bResponses>>
    /\ UNCHANGED backendRest

\* the first runs.retrieve returns; startTime is taken now
BFirstRetrieved ==
    /\ bpc = "firstRetrieve"
    /\ \E status \in RunStatuses :
          /\ bRunStatus' = status
          /\ bElapsed' = 0
          /\ PollLoop(status, 0)
    /\ UNCHANGED <<bRequest, bMessages>>
    /\ UNCHANGED backendRest

\* the one-second timer of the loop fires
BSlept ==
    /\ bpc = "sleep"
    /\ bElapsed' = Advance(bElapsed, PollDelay)
    /\ BIssue("runs.retrieve")
    /\ bpc' = "retrieve"
    /\ UNCHANGED <<bRequest, bRunStatus, bMessages, bResponses>>
    /\ UNCHANGED backendRest

\* a runs.retrieve of the loop returns
BRetrieved ==
    /\ bpc = "retrieve"
    /\ \E status \in RunStatuses, d \in Latencies :
          /\ bRunStatus' = status
          /\ bElapsed' = Advance(bElapsed, d)
          /\ PollLoop(status, Advance(bElapsed, d))
    /\ UNCHANGED <<bRequest, bMessages>>
    /\ UNCHANGED backendRest

\* messages.list returns; content[0].text.value of a message whose first
\* content is not text throws, which the catch answers
BListed ==
    /\ bpc = "list"
    /\ \E kind \in MessageKinds :
          /\ bMessages' = kind
          /\ CASE kind = "none" -> Respond(404, "No response from assistant")
               [] kind = "text" -> Respond(200, "")
               [] OTHER         -> Respond(500, "Internal server error")
    /\ UNCHANGED <<bRequest, bRunStatus, bElapsed, bCalls>>
    /\ UNCHANGED backendRest

\* an OpenAI call rejects and the catch answers
BCallFails ==
    /\ bpc \in {"threadsCreate", "messagesCreate", "runsCreate",
                "firstRetrieve", "retrieve", "list"}
    /\ Respond(500, "Internal server error")
    /\ UNCHANGED <<bRequest, bRunStatus, bElapsed, bMessages, bCalls>>
    /\ UNCHANGED backendRest

----------------------------------------------------------------------------
(* getProductRecommendations.  gRanking is the collection as a search by   *)
(* the product's vector ranks it.                                          *)

RecommendIds == {"p1", "p2", "p3", "p4"}

Rankings ==
    { s \in UNION {[1..n -> RecommendIds] : n \in 0..Cardinality(RecommendIds)} :
        \A i, j \in 1..Len(s) : i # j => s[i] # s[j] }

RecommendLimits == {1, 2}

InRanking(id, ranking) == \E i \in 1..Len(ranking) : ranking[i] = id

\* searchSimilar(vector, limit): the first `limit` of the ranking
searchSimilar(ranking, limit) == Truncate(ranking, limit)

\* recommendationResults.filter(result => result.id !== productId)
WithoutOriginal(hits, productId) ==
    SelectSeq(hits, LAMBDA id : id # productId)

recommendRest == <<pipelineVars, serviceVars, backendVars, collectionVars>>

GStart ==
    /\ gpc = "start"
    /\ gpc' = "retrieve"
    /\ UNCHANGED <<gProductId, gLimit, gRanking, gHits, gResult>>
    /\ UNCHANGED recommendRest

\* retrieve returns: no point, a point without a plain vector, or the vector
GRetrieved ==
    /\ gpc = "retrieve"
    /\ \E validVector \in BOOLEAN :
          IF ~InRanking(gProductId, gRanking) \/ ~validVector
          THEN gpc' = "done" /\ gResult' = Throw
          ELSE gpc' = "search" /\ UNCHANGED gResult
    /\ UNCHANGED <<gProductId, gLimit, gRanking, gHits>>
    /\ UNCHANGED recommendRest

GSearched ==
    /\ gpc = "search"
    /\ gHits' = searchSimilar(gRanking, gLimit + 1)
    /\ gResult' = Return(WithoutOriginal(gHits', gProductId))
    /\ gpc' = "done"
    /\ UNCHANGED <<gProductId, gLimit, gRanking>>
    /\ UNCHANGED recommendRest

\* retrieve or search rejects: logged and thrown again
GCallFails ==
    /\ gpc \in {"retrieve", "search"}
    /\ gResult' = Throw
    /\ gpc' = "done"
    /\ UNCHANGED <<gProductId, gLimit, gRanking, gHits>>
    /\ UNCHANGED recommendRest

----------------------------------------------------------------------------
(* createCollection.  A collection is absent, or present with its vector   *)
(* size (0 when its configuration holds no single size).                   *)

VectorSizes == {384, 768, 1536}

Absent == [exists |-> FALSE, size |-> 0]

Present(size) == [exists |-> TRUE, size |-> size]

Collections == {Absent} \cup {Present(s) : s \in VectorSizes \cup {0}}

collectionRest == <<pipelineVars, serviceVars, backendVars, recommendVars>>

KCall(op) == kCalls' = Append(kCalls, op)

\* from `if (collectionExists && forceRecreate)` on, up to the next await
DeleteOrCreate(collectionExists, forceRecreate) ==
    IF collectionExists /\ forceRecreate
    THEN /\ KCall("deleteCollection")
         /\ kpc' = "deleteCollection"
         /\ UNCHANGED kResult
    ELSE IF ~collectionExists
    THEN /\ KCall("createCollection")
         /\ kpc' = "createCollection"
         /\ UNCHANGED kResult
    ELSE /\ kpc' = "done"
         /\ kResult' = "returned"
         /\ UNCHANGED kCalls

KStart ==
    /\ kpc = "start"
    /\ KCall("getCollections")
    /\ kpc' = "getCollections"
    /\ UNCHANGED <<kCollection, kVectorSize, kForceRecreate,
                   kCollectionExists, kForce, kResult>>
    /\ UNCHANGED collectionRest

\* getCollections returns
KListed ==
    /\ kpc = "getCollections"
    /\ kCollectionExists' = kCollection.exists
    /\ IF kCollection.exists /\ ~kForce
       THEN /\ KCall("getCollection")
            /\ kpc' = "getCollection"
            /\ UNCHANGED kResult
       ELSE DeleteOrCreate(kCollection.exists, kForce)
    /\ UNCHANGED <<kCollection, kVectorSize, kForceRecreate, kForce>>
    /\ UNCHANGED collectionRest

\* getCollection returns the collection's info
KInfoReturned ==
    /\ kpc = "getCollection"
    /\ kForce' = (kForce \/ kCollection.size # kVectorSize)
    /\ DeleteOrCreate(kCollectionExists, kForce')
    /\ UNCHANGED <<kCollection, kVectorSize, kForceRecreate,
                   kCollectionExists>>
    /\ UNCHANGED collectionRest

\* getCollection rejects: the inner catch logs and the function goes on
KInfoFails ==
    /\ kpc = "getCollection"
    /\ DeleteOrCreate(kCollectionExists, kForce)
    /\ UNCHANGED <<kCollection, kVectorSize, kForceRecreate,
                   kCollectionExists, kForce>>
    /\ UNCHANGED collectionRest

KDeleted ==
    /\ kpc = "deleteCollection"
    /\ kCollection' = Absent
    /\ kCollectionExists' = FALSE
    /\ KCall("createCollection")
    /\ kpc' = "createCollection"
    /\ UNCHANGED <<kVectorSize, kForceRecreate, kForce, kResult>>
    /\ UNCHANGED collectionRest

KCreated ==
    /\ kpc = "createCollection"
    /\ kCollection' = Present(kVectorSize)
    /\ kpc' = "done"
    /\ kResult' = "returned"
    /\ UNCHANGED <<kVectorSize, kForceRecreate, kCollectionExists, kForce,
                   kCalls>>
    /\ UNCHANGED collectionRest

\* getCollections, deleteCollection or createCollection rejects: the outer
\* catch logs and throws again
KCallFails ==
    /\ kpc \in {"getCollections", "deleteCollection", "createCollection"}
    /\ kpc' = "done"
    /\ kResult' = "thrown"
    /\ UNCHANGED <<kCollection, kVectorSize, kForceRecreate,
                   kCollectionExists, kForce, kCalls>>
    /\ UNCHANGED collectionRest

----------------------------------------------------------------------------
(* Each specification below runs one part of the program and leaves the    *)
(* variables of the other parts at rest.                                   *)

PriceIdle ==
    /\ priceStr = Undefined
    /\ price = NullNum
    /\ ppc = "idle"

FilterIdle ==
    /\ fResults = << >>
    /\ fMin = UndefinedNum
    /\ fMax = UndefinedNum
    /\ fOnce = << >>
    /\ fTwice = << >>
    /\ fpc = "idle"

NoReturn == [k |-> "pending"]

PqsIdle ==
    /\ qOptions = [subcategory |-> Undefined, mensei |-> Undefined,
                   renk |-> Undefined, minPrice |-> UndefinedNum,
                   maxPrice |-> UndefinedNum]
    /\ qSearchArgs = [efSearch |-> EfSearch, searchMode |-> "approximate"]
    /\ qpc = "idle"
    /\ qFilter = UndefinedFilter
    /\ qRequest = NoRequest
    /\ qSearchResults = << >>
    /\ qTopResults = << >>
    /\ qContext = << >>
    /\ qPrompt = << >>
    /\ qReturn = NoReturn
    /\ qCalls = << >>

RouterIdle ==
    /\ rEntry = "none"
    /\ rpc = "idle"
    /\ rLlmOutput = [kind |-> "pending"]
    /\ rClassification = PendingClassification
    /\ rFilters = NoFilters
    /\ rSqlRequest = NoRequest
    /\ rSearchRequest = NoRequest
    /\ rDocuments = << >>
    /\ rContext = << >>
    /\ rPrompt = << >>
    /\ rResult = PendingResult
    /\ rCalls = << >>

AnswerIdle ==
    /\ aImpl = "none"
    /\ apc = "idle"
    /\ aRequest = NoRequest
    /\ aProducts = << >>
    /\ aContext = << >>
    /\ aLlmOutcome = "pending"
    /\ aResult = PendingResult
    /\ aCalls = << >>
    /\ aLog = << >>

ConcurrentIdle ==
    /\ openaiClient = NoClient
    /\ apiKey = FALSE
    /\ cEntry = [i \in Calls |-> "none"]
    /\ cpc = [i \in Calls |-> "idle"]
    /\ cResponses = [i \in Calls |-> NoResponses]
    /\ cClassification = [i \in Calls |-> PendingClassification]
    /\ cDocuments = [i \in Calls |-> << >>]
    /\ cPrompt = [i \in Calls |-> << >>]
    /\ cResult = [i \in Calls |-> PendingResult]
    /\ cCalls = [i \in Calls |-> << >>]
    /\ cReadFrom = [i \in Calls |-> {}]

ServiceIdle ==
    /\ useProductQueryProcessor = FALSE
    /\ productQueryService = "null"
    /\ threadId = NullThread
    /\ connectionTest = "none"
    /\ sConfigured = FALSE
    /\ sThreads = << >>
    /\ spc = [i \in Calls |-> "idle"]
    /\ sPath = [i \in Calls |-> "none"]
    /\ sIssued = [i \in Calls |-> {}]

BackendIdle ==
    /\ bRequest = [message |-> FALSE, assistantId |-> FALSE,
                   threadId |-> FALSE]
    /\ bpc = "idle"
    /\ bRunStatus = "none"
    /\ bElapsed = 0
    /\ bMessages = "none"
    /\ bCalls = {}
    /\ bResponses = << >>

RecommendIdle ==
    /\ gProductId = "p1"
    /\ gLimit = 1
    /\ gRanking = << >>
    /\ gpc = "idle"
    /\ gHits = << >>
    /\ gResult = PendingResult

CollectionIdle ==
    /\ kCollection = Absent
    /\ kVectorSize = 0
    /\ kForceRecreate = FALSE
    /\ kpc = "idle"
    /\ kCollectionExists = FALSE
    /\ kForce = FALSE
    /\ kCalls = << >>
    /\ kResult = "pending"

PipelineIdle ==
    /\ PriceIdle
    /\ FilterIdle
    /\ PqsIdle
    /\ RouterIdle
    /\ AnswerIdle
    /\ ConcurrentIdle

AppIdle ==
    /\ ServiceIdle
    /\ BackendIdle
    /\ RecommendIdle
    /\ CollectionIdle

----------------------------------------------------------------------------
(* Harness of the price normaliser: every string over PriceAlphabet of at  *)
(* most MaxPriceLen characters, the documented samples, and undefined.     *)

MaxPriceLen == 4

PriceAlphabet == {"0", "5", ".", ",", " ", "T", "L"}

PriceSamples ==
    { Chars1990TL, Chars29999TL, Chars175TL,
      <<LiraSign, "8", "5">>, <<"8", "5", " ", LiraSign>>,
      <<"1", ".", "2", "5", "0", ",", "5", "0", " ", "T", "L">>,
      CharsFree }

StringsUpTo(n) == UNION {[1..k -> PriceAlphabet] : k \in 0..n}

PriceInputs == StringsUpTo(MaxPriceLen) \cup PriceSamples \cup {Undefined}

PriceInit ==
    /\ priceStr \in PriceInputs
    /\ price = NullNum
    /\ ppc = "init"
    /\ FilterIdle
    /\ PqsIdle
    /\ RouterIdle
    /\ AnswerIdle
    /\ ConcurrentIdle
    /\ AppIdle

ParsePrice ==
    /\ ppc = "init"
    /\ price' = parsePriceToNumber(priceStr)
    /\ ppc' = "parsed"
    /\ UNCHANGED <<priceStr, filterVars, pqsVars, routerVars, answerVars,
                   concurrentVars, appVars>>

PriceNext == ParsePrice

SpecPrice == PriceInit /\ [][PriceNext]_vars

----------------------------------------------------------------------------
(* Harness of the price post-filter: every list of at most MaxRecs records *)
(* over FilterRecs, every pair of bounds over BoundVals; the filter is     *)
(* applied, then applied again to its own result.                          *)

MaxRecs == 3

FilterPrices ==
    {Chars50TL, Chars29999TL, Chars1990TL, Chars0TL, CharsFree, Undefined}

FilterRecs ==
    {Hit(Payload(<<"p">>, <<"Urun">>, pr, Undefined), 500) : pr \in FilterPrices}
        \cup {Hit(NoPayload, 500)}

BoundVals == {UndefinedNum, Num(0, 0), Num(100, 0), Num(300, 0)}

ListsUpTo(S, n) == UNION {[1..k -> S] : k \in 0..n}

FilterInit ==
    /\ fResults \in ListsUpTo(FilterRecs, MaxRecs)
    /\ fMin \in BoundVals
    /\ fMax \in BoundVals
    /\ fOnce = << >>
    /\ fTwice = << >>
    /\ fpc = "init"
    /\ PriceIdle
    /\ PqsIdle
    /\ RouterIdle
    /\ AnswerIdle
    /\ ConcurrentIdle
    /\ AppIdle

ApplyPriceFilter ==
    /\ fpc = "init"
    /\ fOnce' = applyPriceFilter(fResults, fMin, fMax)
    /\ fpc' = "once"
    /\ UNCHANGED <<fResults, fMin, fMax, fTwice, priceVars, pqsVars, routerVars,
                   answerVars, concurrentVars, appVars>>

ApplyPriceFilterAgain ==
    /\ fpc = "once"
    /\ fTwice' = applyPriceFilter(fOnce, fMin, fMax)
    /\ fpc' = "twice"
    /\ UNCHANGED <<fResults, fMin, fMax, fOnce, priceVars, pqsVars, routerVars,
                   answerVars, concurrentVars, appVars>>

FilterNext == ApplyPriceFilter \/ ApplyPriceFilterAgain

SpecPriceFilter == FilterInit /\ [][FilterNext]_vars

----------------------------------------------------------------------------
(* ProductQueryService.processQuery under every options object over the    *)
(* values below and every answer of the collaborators.                     *)

SubcategoryVals == {Undefined, << >>, <<"ruj">>}

MenseiVals == {Undefined, <<"TR">>}

RenkVals == {Undefined, <<"red">>}

\* efSearch: number = 128, searchMode: string = 'approximate'
EfSearchVals == {64, EfSearch}

SearchModeVals == {"approximate", "exact", "fast"}

MinPriceVals == {UndefinedNum, Num(100, 0)}

MaxPriceVals == {UndefinedNum, Num(0, 0), Num(300, 0)}

PqsInit ==
    /\ qOptions \in [subcategory : SubcategoryVals, mensei : MenseiVals,
                     renk : RenkVals, minPrice : MinPriceVals,
                     maxPrice : MaxPriceVals]
    /\ qSearchArgs \in [efSearch : EfSearchVals, searchMode : SearchModeVals]
    /\ qpc = "start"
    /\ qFilter = UndefinedFilter
    /\ qRequest = NoRequest
    /\ qSearchResults = << >>
    /\ qTopResults = << >>
    /\ qContext = << >>
    /\ qPrompt = << >>
    /\ qReturn = NoReturn
    /\ qCalls = << >>
    /\ PriceIdle
    /\ FilterIdle
    /\ RouterIdle
    /\ AnswerIdle
    /\ ConcurrentIdle
    /\ AppIdle

PqsNext ==
    \/ PqsStart
    \/ PqsEmbedded
    \/ PqsRetrievalFails
    \/ PqsSearched
    \/ PqsAnswered

SpecPQS == PqsInit /\ [][PqsNext]_vars

----------------------------------------------------------------------------
(* answerProductQuestion, of the service and of the script, under every    *)
(* answer of the collaborators.                                            *)

AnswerInit ==
    /\ aImpl \in AnswerImpls
    /\ apc = "start"
    /\ aRequest = NoRequest
    /\ aProducts = << >>
    /\ aContext = << >>
    /\ aLlmOutcome = "pending"
    /\ aResult = PendingResult
    /\ aCalls = << >>
    /\ aLog = << >>
    /\ PriceIdle
    /\ FilterIdle
    /\ PqsIdle
    /\ RouterIdle
    /\ ConcurrentIdle
    /\ AppIdle

AnswerNext ==
    \/ AnswerStart
    \/ AnswerEmbedded
    \/ AnswerSearched
    \/ AnswerSearchFails
    \/ AnswerAnswered

SpecAnswer == AnswerInit /\ [][AnswerNext]_vars

----------------------------------------------------------------------------
(* Two concurrent calls of the router's entry points, with or without an   *)
(* API key in the environment.                                             *)

ConcurrentInit ==
    /\ openaiClient = NoClient
    /\ apiKey \in BOOLEAN
    /\ cEntry \in [Calls -> {"processQuery", "processUserQuery"}]
    /\ cpc = [i \in Calls |-> "start"]
    /\ cResponses = [i \in Calls |-> NoResponses]
    /\ cClassification = [i \in Calls |-> PendingClassification]
    /\ cDocuments = [i \in Calls |-> << >>]
    /\ cPrompt = [i \in Calls |-> << >>]
    /\ cResult = [i \in Calls |-> PendingResult]
    /\ cCalls = [i \in Calls |-> << >>]
    /\ cReadFrom = [i \in Calls |-> {}]
    /\ PriceIdle
    /\ FilterIdle
    /\ PqsIdle
    /\ RouterIdle
    /\ AnswerIdle
    /\ AppIdle

ConcurrentNext ==
    \E i \in Calls :
        \/ CStart(i)
        \/ CClassified(i)
        \/ CSqlReturned(i)
        \/ CEmbedded(i)
        \/ CSearched(i)
        \/ CAnswered(i)

SpecConcurrent == ConcurrentInit /\ [][ConcurrentNext]_vars

----------------------------------------------------------------------------
(* The classification router: one call of either entry point, under every  *)
(* output of the classification call and every answer of the collaborators *)

Init ==
    /\ rEntry \in {"processQuery", "processUserQuery"}
    /\ rpc = "start"
    /\ rLlmOutput = [kind |-> "pending"]
    /\ rClassification = PendingClassification
    /\ rFilters = NoFilters
    /\ rSqlRequest = NoRequest
    /\ rSearchRequest = NoRequest
    /\ rDocuments = << >>
    /\ rContext = << >>
    /\ rPrompt = << >>
    /\ rResult = PendingResult
    /\ rCalls = << >>
    /\ PriceIdle
    /\ FilterIdle
    /\ PqsIdle
    /\ AnswerIdle
    /\ ConcurrentIdle
    /\ AppIdle

Next ==
    \/ RouterStart
    \/ RouterClassified
    \/ RouterSqlReturned
    \/ RouterEmbedded
    \/ RouterSearched
    \/ RouterSearchFails
    \/ RouterAnswered

Spec == Init /\ [][Next]_vars

----------------------------------------------------------------------------
(* The two query pipelines side by side: a behaviour is one call of the    *)
(* classification router or one call of ProductQueryService.processQuery.  *)

QueryPathsInit == Init \/ PqsInit

QueryPathsNext == Next \/ PqsNext

SpecQueryPaths == QueryPathsInit /\ [][QueryPathsNext]_vars

----------------------------------------------------------------------------
(* One OpenAIService instance, configured for Qdrant or not, and two       *)
(* sendMessage calls on it.                                                *)

ServiceInit ==
    /\ sConfigured \in BOOLEAN
    /\ productQueryService = Constructor(sConfigured).productQueryService
    /\ connectionTest = Constructor(sConfigured).connectionTest
    /\ useProductQueryProcessor =
           Constructor(sConfigured).useProductQueryProcessor
    /\ threadId = NullThread
    /\ sThreads = << >>
    /\ spc = [i \in Calls |-> "idle"]
    /\ sPath = [i \in Calls |-> "none"]
    /\ sIssued = [i \in Calls |-> {}]
    /\ PipelineIdle
    /\ BackendIdle
    /\ RecommendIdle
    /\ CollectionIdle

ServiceNext ==
    \/ TestConnectionReturns
    \/ \E i \in Calls :
          \/ SendStart(i)
          \/ SendProcessQueryReturns(i)
          \/ SendThreadCreated(i)
          \/ SendPostMessage(i)
          \/ SendMessagePosted(i)
          \/ SendRunCreated(i)
          \/ SendRetrieved(i)
          \/ SendSlept(i)
          \/ SendListed(i)
          \/ SendCallFails(i)

SpecService == ServiceInit /\ [][ServiceNext]_vars

----------------------------------------------------------------------------
(* One POST /api/chat request.  Every awaited OpenAI call settles and      *)
(* every timer fires, so a handler that can take a step takes one.         *)

BackendInit ==
    /\ bRequest \in [message : BOOLEAN, assistantId : BOOLEAN,
                     threadId : BOOLEAN]
    /\ bpc = "received"
    /\ bRunStatus = "none"
    /\ bElapsed = 0
    /\ bMessages = "none"
    /\ bCalls = {}
    /\ bResponses = << >>
    /\ PipelineIdle
    /\ ServiceIdle
    /\ RecommendIdle
    /\ CollectionIdle

BackendNext ==
    \/ BReceive
    \/ BThreadCreated
    \/ BMessagePosted
    \/ BRunCreated
    \/ BFirstRetrieved
    \/ BSlept
    \/ BRetrieved
    \/ BListed
    \/ BCallFails

SpecBackend == BackendInit /\ [][BackendNext]_vars /\ WF_vars(BackendNext)

----------------------------------------------------------------------------
(* One call of getProductRecommendations over every ranking of at most     *)
(* four points.                                                            *)

RecommendInit ==
    /\ gProductId \in {"p1", "p2"}
    /\ gLimit \in RecommendLimits
    /\ gRanking \in Rankings
    /\ gpc = "start"
    /\ gHits = << >>
    /\ gResult = PendingResult
    /\ PipelineIdle
    /\ ServiceIdle
    /\ BackendIdle
    /\ CollectionIdle

RecommendNext == GStart \/ GRetrieved \/ GSearched \/ GCallFails

SpecRecommend == RecommendInit /\ [][RecommendNext]_vars

----------------------------------------------------------------------------
(* One call of createCollection on every state of the collection.          *)

CollectionInit ==
    /\ kCollection \in Collections
    /\ kVectorSize \in VectorSizes
    /\ kForceRecreate \in BOOLEAN
    /\ kpc = "start"
    /\ kCollectionExists = FALSE
    /\ kForce = kForceRecreate
    /\ kCalls = << >>
    /\ kResult = "pending"
    /\ PipelineIdle
    /\ ServiceIdle
    /\ BackendIdle
    /\ RecommendIdle

CollectionNext ==
    \/ KStart
    \/ KListed
    \/ KInfoReturned
    \/ KInfoFails
    \/ KDeleted
    \/ KCreated
    \/ KCallFails

SpecCollection == CollectionInit /\ [][CollectionNext]_vars

----------------------------------------------------------------------------
(* C1 *)

Issued(calls) == {calls[i] : i \in 1..Len(calls)}

\* C1: processQuery and processUserQuery never throw, and whatever the
\* classification and whichever collaborator fails, what they return is a
\* non-empty string.
C1_AlwaysAnswers ==
    /\ rResult.k # "thrown"
    /\ rpc = "done" =>
          /\ rResult.k = "returned"
          /\ rResult.value \notin {Undefined, Null, << >>}

\* the final-answer call fails after the whole semantic path has run
C1_Witness ==
    /\ rpc = "done"
    /\ rCalls = <<"classify", "embed", "search", "answer">>
    /\ rResult = [k |-> "returned", value |-> RouterErrorMessage]

----------------------------------------------------------------------------
(* C2 *)

\* C2: for a declined classification the entry point returns the refusal
\* message of the classification as it is, or the generic fallback when
\* there is none, and after the classification call issues no embedding,
\* vector-search, datastore or final-answer call.
C2_DeclinedNoCalls ==
    (rClassification.t = "object" /\ rClassification.mode = QueryMode_DECLINED)
        => /\ rpc = "done"
           /\ rCalls = <<"classify">>
           /\ rResult.k = "returned"
           /\ rClassification.message \in {Undefined, << >>}
                  => rResult.value = DeclinedFallback(rEntry)
           /\ rClassification.message \notin {Undefined, << >>}
                  => rResult.value = rClassification.message

C2_Witness ==
    /\ rpc = "done"
    /\ rLlmOutput.kind = "object"
    /\ rClassification.mode = QueryMode_DECLINED
    /\ rClassification.message = <<"I only answer beauty questions.">>
    /\ rResult.value = <<"I only answer beauty questions.">>
    /\ rCalls = <<"classify">>

----------------------------------------------------------------------------
(* C3 *)

\* C3: for a direct classification whose sql is absent or empty the entry
\* point returns the fixed apology and calls neither the datastore nor the
\* final-answer LLM.
C3_DirectWithoutSql ==
    (/\ rClassification.t = "object"
     /\ rClassification.mode = QueryMode_DIRECT
     /\ rClassification.sql \in {Undefined, << >>})
        => /\ "sql" \notin Issued(rCalls)
           /\ "answer" \notin Issued(rCalls)
           /\ rpc = "done"
           /\ rResult = [k |-> "returned", value |-> NoSqlApology]

----------------------------------------------------------------------------
(* C4 *)

\* C4: classifyQuery fails closed: what it returns has one of the four
\* modes, and it is the declined classification with the generic apology
\* whenever the LLM call failed or its output was no JSON object with one of
\* the four modes.
C4_ClassifierFailsClosed ==
    rClassification # PendingClassification =>
        /\ rClassification.t = "object"
        /\ rClassification.mode \in QueryModes
        /\ (\/ rLlmOutput.kind # "object"
            \/ rLlmOutput.value.mode \notin QueryModes)
               => rClassification = DeclinedOnError

----------------------------------------------------------------------------
(* C5 *)

\* the query of the routing test asks for products "under 100 TL"
QueryMaxPrice == Num(100, 0)

\* the record has a price that parses to a value inside [min, max]
WithinBounds(hit, min, max) ==
    /\ hit.payload # NoPayload
    /\ LET p == parsePriceToNumber(hit.payload.price)
       IN  /\ p.k = "num"
           /\ min.k = "num" => ~NumLess(p, min)
           /\ max.k = "num" => ~NumLess(max, p)

\* C5: the query carries a price bound (at most 100 TL), so every record
\* rendered into the context of the final-answer prompt has a parseable
\* price inside the bound.
C5_PriceBoundRespected ==
    (rpc \in {"answer", "done"} /\ "search" \in Issued(rCalls)
         /\ rContext # << >>)
        => \A i \in 1..Len(rDocuments) :
               WithinBounds(rDocuments[i], UndefinedNum, QueryMaxPrice)

----------------------------------------------------------------------------
(* C9 *)

NoResultsSentinel == <<"No relevant products found.">>

\* C9: when the retrieval returned no record, the context given to the
\* final-answer prompt is the fixed "no relevant results" sentinel, never
\* the empty string.
C9_EmptyContextSentinel ==
    (rpc = "answer" /\ "search" \in Issued(rCalls) /\ rDocuments = << >>)
        => /\ rContext # << >>
           /\ rContext = NoResultsSentinel

----------------------------------------------------------------------------
(* C6 *)

\* C6: no vector-search request carries the empty object as its filter, and
\* when buildQdrantFilter returned undefined the request carries no filter,
\* although semanticSearch's parameter then takes its default value {}.
C6_NoEmptyFilterSent ==
    qRequest # NoRequest =>
        /\ qRequest.filter # EmptyObject
        /\ qFilter = UndefinedFilter => qRequest.filter = UndefinedFilter

C6_Witness ==
    /\ qRequest # NoRequest
    /\ "search" \in {qCalls[i] : i \in 1..Len(qCalls)}
    /\ buildQdrantFilter(qOptions) = UndefinedFilter
    /\ FilterParameter(qFilter) = EmptyObject
    /\ qRequest.filter = UndefinedFilter

----------------------------------------------------------------------------
(* C7 *)

FilterableFields == {"subcategory", "mensei", "renk"}

Populated(options) == {f \in FilterableFields : Truthy(options[f])}

\* C7: the built filter is undefined exactly when no filterable option is
\* populated; otherwise it is a "must" list holding, for each populated
\* field, exactly one equality condition on that field's value, and nothing
\* else (the price bounds add no condition).
C7_FilterBuilder ==
    qpc \notin {"idle", "start"} =>
        /\ qFilter = UndefinedFilter <=> Populated(qOptions) = {}
        /\ Populated(qOptions) # {} =>
              /\ ObjectKeys(qFilter) = {"must"}
              /\ Len(qFilter.must) = Cardinality(Populated(qOptions))
              /\ \A f \in Populated(qOptions) :
                    \E i \in 1..Len(qFilter.must) :
                        qFilter.must[i] = Condition(f, qOptions[f])
              /\ \A i \in 1..Len(qFilter.must) :
                    qFilter.must[i].key \in Populated(qOptions)

C7_Witness ==
    /\ qpc \notin {"idle", "start"}
    /\ Populated(qOptions) = {"subcategory", "renk"}
    /\ TruthyNum(qOptions.maxPrice)
    /\ Len(qFilter.must) = 2

----------------------------------------------------------------------------
(* C8 *)

\* C8: the price post-filter is idempotent: filtering the records that a
\* first pass kept, with the same bounds, keeps all of them.
C8_FilterIdempotent == fpc = "twice" => fTwice = fOnce

C8_Witness ==
    /\ fpc = "twice"
    /\ TruthyNum(fMax)
    /\ fOnce # << >>
    /\ Len(fOnce) < Len(fResults)
    /\ fTwice = fOnce

----------------------------------------------------------------------------
(* C10 *)

\* The value of a price written in the Turkish locale, read off its digits:
\* an optional "TL" suffix is dropped, the digits before the comma (the
\* dots between them dropped) are the whole part, the digits after it the
\* fraction.
WithoutTLSuffix(s) ==
    IF Len(s) >= 2 /\ s[Len(s) - 1] = "T" /\ s[Len(s)] = "L"
    THEN Trim(SubSeq(s, 1, Len(s) - 2))
    ELSE s

CommaAt(s) == {i \in 1..Len(s) : s[i] = ","}

WholePart(s) ==
    IF CommaAt(s) = {} THEN s
    ELSE SubSeq(s, 1, (CHOOSE i \in CommaAt(s) : TRUE) - 1)

FractionPart(s) ==
    IF CommaAt(s) = {} THEN << >>
    ELSE SubSeq(s, (CHOOSE i \in CommaAt(s) : TRUE) + 1, Len(s))

\* digit groups separated by single dots, then at most one comma and digits
LocaleNumber(s) ==
    LET w == WholePart(s)
        f == FractionPart(s)
    IN  /\ Cardinality(CommaAt(s)) <= 1
        /\ w # << >>
        /\ IsDigit(w[1]) /\ IsDigit(w[Len(w)])
        /\ \A i \in 1..Len(w) : IsDigit(w[i]) \/ w[i] = "."
        /\ \A i \in 1..(Len(w) - 1) : ~(w[i] = "." /\ w[i + 1] = ".")
        /\ CommaAt(s) # {} => f # << >>
        /\ \A i \in 1..Len(f) : IsDigit(f[i])

LocalePrice(s) == s # Undefined /\ LocaleNumber(WithoutTLSuffix(s))

LocaleValue(s) ==
    LET b == WithoutTLSuffix(s)
    IN  Decimal(SelectSeq(WholePart(b), IsDigit), FractionPart(b))

HasNoDigit(s) == \A i \in 1..Len(s) : ~IsDigit(s[i])

\* C10: parsePriceToNumber returns null for undefined, for the empty string
\* and for a string with no digit; a price in the Turkish locale form (dots
\* as thousands separators, a comma before the decimals, an optional TL
\* suffix) parses to the value of its digits, so "1.990 TL" gives 1990 and
\* "299,99 TL" gives 299.99.
C10_ParsePrice ==
    ppc = "parsed" =>
        /\ priceStr \in {Undefined, << >>} => price = NullNum
        /\ HasNoDigit(priceStr) => price = NullNum
        /\ LocalePrice(priceStr) => price = LocaleValue(priceStr)
        /\ priceStr = Chars1990TL => price = Num(1990, 0)
        /\ priceStr = Chars29999TL => price = Num(29999, 2)

C10_Witness ==
    /\ ppc = "parsed"
    /\ priceStr = Chars1990TL
    /\ LocalePrice(priceStr)
    /\ price = Num(1990, 0)

----------------------------------------------------------------------------
(* C11 *)

\* the record has every key of the filters object with the value given there
MatchesFilters(hit, filters) ==
    /\ hit.payload # NoPayload
    /\ \A f \in filters : hit.payload[f.key] = f.value

\* C11: in semantic mode the vector search is constrained by the filter
\* derived from the classification (an identifier filter for a specific
\* product, a category filter for a category, none for a high-level
\* question): the request sent to the index carries a filter whenever one
\* was derived, and no record that fails the derived filter is given to the
\* context aggregator.
C11_SearchUsesDerivedFilter ==
    (/\ rClassification.t = "object"
     /\ rClassification.mode = QueryMode_SEMANTIC
     /\ "search" \in Issued(rCalls))
        => /\ rFilters # NoFilters => rSearchRequest.filter # UndefinedFilter
           /\ rpc \in {"answer", "done"} =>
                  \A i \in 1..Len(rDocuments) :
                      MatchesFilters(rDocuments[i], rFilters)

----------------------------------------------------------------------------
(* C12 *)

\* how often the call was issued
TimesIssued(calls, op) == Cardinality({i \in 1..Len(calls) : calls[i] = op})

\* C12: in direct mode with a query-language string, the datastore is
\* queried exactly once, the request is the one of the classifier's string
\* and of no other string, and the rows returned are the data of the
\* final-answer prompt.
C12_DirectRunsClassifierSql ==
    (/\ rClassification.t = "object"
     /\ rClassification.mode = QueryMode_DIRECT
     /\ Truthy(rClassification.sql)
     /\ rpc \in {"sql", "answer", "done"})
        => /\ TimesIssued(rCalls, "sql") = 1
           /\ rSqlRequest = executeDirectSqlRequest(rClassification.sql)
           /\ \A other \in SqlVals :
                  (Truthy(other) /\ other # rClassification.sql)
                      => rSqlRequest # executeDirectSqlRequest(other)
           /\ "answer" \in Issued(rCalls)
                  => rPrompt = SqlPrompt(rEntry, SqlRows, TheQuery)

----------------------------------------------------------------------------
(* C13 *)

\* C13: when the embedding call or the vector-search call of a query fails,
\* the final-answer LLM is not called for that query and the answer is the
\* generic error message; the failure is not turned into an empty result
\* list that is answered as if nothing had been found.
C13_RetrievalFailureSurfaces ==
    "Error searching products:" \in Issued(aLog)
        => /\ "answer" \notin Issued(aCalls)
           /\ apc = "done"
           /\ aResult = [k |-> "returned", value |-> AnswerErrorMessage]

----------------------------------------------------------------------------
(* C20 *)

\* C20: the answer returned for a query is never null or empty: a final-
\* answer call that succeeds with a null or empty content is answered with
\* the fixed "No response generated." string, and one that fails with the
\* generic error string.
C20_AnswerNeverNull ==
    (apc = "done" /\ aLlmOutcome # "pending")
        => /\ aResult.k = "returned"
           /\ aResult.value \notin {Null, Undefined, << >>}
           /\ aLlmOutcome \in {"null", "empty"}
                  => aResult.value = <<"No response generated.">>
           /\ aLlmOutcome = "error" => aResult.value = AnswerErrorMessage

----------------------------------------------------------------------------
(* C14 *)

\* C14: the price post-filter returns, in their original order, exactly the
\* records whose price parses to a value not below minPrice (when given) and
\* not above maxPrice (when given); records whose price is missing or does
\* not parse are dropped as soon as one bound is given, and without bounds
\* the input comes back unchanged.
C14_FilterIsBoundedSubsequence ==
    fpc \in {"once", "twice"} =>
        fOnce = IF fMin = UndefinedNum /\ fMax = UndefinedNum THEN fResults
                ELSE SelectSeq(fResults,
                               LAMBDA r : WithinBounds(r, fMin, fMax))

----------------------------------------------------------------------------
(* C15 *)

Last(seq) == seq[Len(seq)]

\* the stages the router runs for a classification, in order
RouterStages(c) ==
    CASE c.mode = QueryMode_DIRECT   -> <<"classify", "sql", "answer">>
      [] c.mode = QueryMode_SEMANTIC -> <<"classify", "embed", "search",
                                          "answer">>
      [] c.mode = QueryMode_NON_RAG  -> <<"classify", "answer">>
      [] OTHER                       -> <<"classify">>

IsPrefix(a, b) == Len(a) <= Len(b) /\ a = SubSeq(b, 1, Len(a))

\* C15: within one call the stages run in the order classify, embed, search,
\* aggregate, answer.  No embedding, search or datastore call is issued
\* before the classification has returned, no search before its embedding
\* has returned, the final-answer call is the last one and its prompt holds
\* the aggregate of what the retrieval returned, and an answer of the LLM is
\* returned only after every stage of the selected strategy has run.
C15_StagesInOrder ==
    /\ rClassification = PendingClassification
           => Issued(rCalls) \subseteq {"classify"}
    /\ rClassification.t = "object"
           => /\ IsPrefix(rCalls, RouterStages(rClassification))
              /\ (rpc = "answer" /\ rClassification.mode = QueryMode_SEMANTIC)
                     => /\ rContext = aggregateContext(rDocuments)
                        /\ rPrompt = generatePromptBasedOnType(
                               SemanticType(rEntry, rClassification),
                               rContext, TheQuery)
    /\ rpc \in {"classify", "sql", "embed", "search", "answer"}
           => Last(rCalls) = rpc
    /\ IsPrefix(qCalls, <<"embed", "search", "llm">>)
    /\ qpc = "answering"
           => /\ qCalls = <<"embed", "search", "llm">>
              /\ qTopResults = Truncate(applyPriceFilter(qSearchResults,
                                    qOptions.minPrice, qOptions.maxPrice), TopN)
              /\ qContext = PqsAggregateContext(qTopResults)
              /\ qPrompt = generatePrompt(TheQuery, qContext)
    /\ (qpc = "done" /\ qReturn # PqsErrorReturn)
           => qCalls = <<"embed", "search", "llm">>

\* a semantic query answered by the LLM after all four stages
C15_Witness ==
    /\ rpc = "done"
    /\ rClassification.t = "object"
    /\ rClassification.mode = QueryMode_SEMANTIC
    /\ rCalls = <<"classify", "embed", "search", "answer">>
    /\ Len(rDocuments) = 2
    /\ rResult = [k |-> "returned", value |-> LlmText]

----------------------------------------------------------------------------
(* C16 *)

ExternalCalls == {"classify", "sql", "embed", "search", "answer", "llm"}

\* C16: no external call is retried.  Within one call every external
\* operation is issued at most once, and when the call awaited fails the
\* entry point returns its error message without issuing anything more.
C16_NoRetries ==
    /\ \A op \in ExternalCalls :
           /\ TimesIssued(rCalls, op) <= 1
           /\ TimesIssued(qCalls, op) <= 1
    /\ rLlmOutput.kind \in {"api_error", "not_json"}
           => /\ rCalls = <<"classify">>
              /\ rResult = [k |-> "returned",
                            value |-> DeclinedOnError.message]
    /\ (rpc = "done" /\ Last(rCalls) \in {"sql", "embed", "search"})
           => rResult = [k |-> "returned", value |-> RouterErrorMessage]
    /\ (qpc = "done" /\ Last(qCalls) \in {"embed", "search"})
           => qReturn = PqsErrorReturn

\* the vector search failed and was not issued again
C16_Witness ==
    /\ rpc = "done"
    /\ rCalls = <<"classify", "embed", "search">>
    /\ rDocuments = << >>
    /\ rResult = [k |-> "returned", value |-> RouterErrorMessage]

----------------------------------------------------------------------------
(* C18 *)

\* C18: a non_rag query is answered by exactly one final-answer call, whose
\* prompt is the query wrapped in the safety instructions, and neither the
\* embedding provider, the vector index nor the datastore is called.
C18_NonRagSafetyTemplate ==
    (rClassification.t = "object" /\ rClassification.mode = QueryMode_NON_RAG)
        => /\ rpc \in {"answer", "done"}
           /\ rCalls = <<"classify", "answer">>
           /\ \E i \in 1..Len(rPrompt) : rPrompt[i] = safeInstructions[1]
           /\ \E i \in 1..Len(rPrompt) : rPrompt[i] = TheQuery[1]

----------------------------------------------------------------------------
(* C19 *)

\* the fixed message for a mode that is none of the four
CannotProcess(entry) ==
    IF entry = "processQuery" THEN NotSureMessage
    ELSE DeclinedFallback("processUserQuery")

\* C19: when the mode of the classification is missing, null or unknown,
\* the entry point returns its fixed "cannot process" message and issues no
\* embedding, vector-search, datastore or final-answer call.
C19_UnknownMode ==
    (rClassification.t = "object" /\ rClassification.mode \notin QueryModes)
        => /\ rpc = "done"
           /\ rCalls = <<"classify">>
           /\ rResult = [k |-> "returned", value |-> CannotProcess(rEntry)]

C19_Witness ==
    /\ rEntry = "processUserQuery"
    /\ rLlmOutput.kind = "object"
    /\ rClassification.mode = <<"chitchat">>
    /\ rpc = "done"
    /\ rResult.value = <<"I'm sorry, but I cannot answer that.">>

----------------------------------------------------------------------------
(* C17 *)

\* one call of the entry point run on its own from the classification on,
\* with the responses `resp`: what it returns and the calls it issues
RECURSIVE RunAlone(_, _, _, _, _)
RunAlone(entry, c, resp, outcome, calls) ==
    IF outcome.k = "await"
    THEN RunAlone(entry, c, resp, Resume(entry, c, outcome.op, resp),
                  Append(calls, Call(outcome.op, outcome.arg)))
    ELSE [ result |-> IF outcome.k = "return"
                      THEN [k |-> "returned", value |-> outcome.value]
                      ELSE [k |-> "thrown"],
           calls |-> calls ]

Alone(entry, resp) ==
    RunAlone(entry, classifyQuery(resp.classify), resp,
             TryCatch(Route(entry, classifyQuery(resp.classify), TheQuery)),
             <<Call("classify", TheQuery)>>)

\* each finished call has returned what it returns alone and issued the
\* calls it issues alone
RunsAsAlone ==
    \A i \in Calls :
        cpc[i] = "done" =>
            /\ cResult[i] = Alone(cEntry[i], cResponses[i]).result
            /\ cCalls[i] = Alone(cEntry[i], cResponses[i]).calls

\* C17 as stated: there is no shared mutable state between calls.  Under
\* every interleaving of two concurrent calls each returns the answer and
\* issues the calls it would alone, and neither reads a value the other has
\* written.
C17_NoSharedState ==
    /\ RunsAsAlone
    /\ \A i \in Calls : cReadFrom[i] \subseteq {i}

\* C17 as amended: the one value a call reads that another call may have
\* written is the OpenAI client of the embedding module, which is created
\* once, by the first call that asks for an embedding with the API key set,
\* and never replaced; under every interleaving of two concurrent calls
\* each returns the answer and issues the calls it would alone.
C17_IsolatedButForClient ==
    /\ RunsAsAlone
    /\ openaiClient # NoClient
           => /\ apiKey
              /\ \E k \in 1..Len(cCalls[openaiClient.createdBy]) :
                     cCalls[openaiClient.createdBy][k].op = "embed"
              /\ \A i \in Calls :
                     cReadFrom[i] \subseteq {openaiClient.createdBy}
    /\ openaiClient = NoClient => \A i \in Calls : cReadFrom[i] = {}

\* both calls have run a semantic query to its answer, one with the client
\* the other created, and they end differently
C17_Witness ==
    /\ \A i \in Calls : cpc[i] = "done"
    /\ cReadFrom["b"] = {"a"}
    /\ cResult["a"] = [k |-> "returned", value |-> LlmText]
    /\ cResult["b"] = [k |-> "returned", value |-> RouterErrorMessage]
    /\ cClassification["a"] # cClassification["b"]
    /\ Len(cCalls["b"]) = 4

----------------------------------------------------------------------------
(* Over-fetching and the request's tuning parameters                       *)

\* the names printed in a context, in the order of their blocks
RenderedNames(context) ==
    LET at == {p \in 1..(Len(context) - 1) : context[p] = "Name: "}
    IN  [k \in 1..Cardinality(at) |->
            context[(CHOOSE p \in at :
                        Cardinality({q \in at : q < p}) = k - 1) + 1]]

\* the records that pass the price bounds, in the order the index gave them
Survivors ==
    applyPriceFilter(qSearchResults, qOptions.minPrice, qOptions.maxPrice)

\* C21: the retrieval step requests 10 candidates and keeps at most 5
\* records, which are exactly the first five survivors of the price
\* post-filter in the index's rank order; the records rendered into the
\* context are exactly the returned records, in that same order.
C21_OverFetchAndTruncate ==
    /\ qRequest # NoRequest => qRequest.limit = 10
    /\ Len(qTopResults) = Min(5, Len(Survivors))
    /\ \A i \in 1..Len(qTopResults) : qTopResults[i] = Survivors[i]
    /\ qContext # << >> =>
          RenderedNames(qContext) =
              [i \in 1..Len(qTopResults) |->
                  OrElse(qTopResults[i].payload.name, <<"Unknown">>)[1]]
    /\ (qpc = "done" /\ qReturn # PqsErrorReturn) =>
          /\ qReturn.results = qTopResults
          /\ qContext # << >>

\* six candidates came back, all survive, and the sixth is cut off
C21_Witness ==
    /\ qpc = "done"
    /\ qReturn # PqsErrorReturn
    /\ Len(qSearchResults) = 6
    /\ Len(Survivors) = 6
    /\ Len(qReturn.results) = 5
    /\ qReturn.results[5] = qSearchResults[5]

\* C22: a vector-search request carries hnsw_ef, equal to efSearch, exactly
\* when searchMode is approximate, and the exhaustive-scan flag exactly when
\* searchMode is exact; no request carries both, and in exact mode the
\* request is the same for every efSearch.
C22_TuningFollowsSearchMode ==
    qRequest # NoRequest =>
        /\ (qRequest.hnsw_ef # UndefinedNum)
               <=> (qSearchArgs.searchMode = "approximate")
        /\ qSearchArgs.searchMode = "approximate"
               => qRequest.hnsw_ef = Num(qSearchArgs.efSearch, 0)
        /\ qRequest.exact <=> (qSearchArgs.searchMode = "exact")
        /\ ~(qRequest.exact /\ qRequest.hnsw_ef # UndefinedNum)
        /\ qSearchArgs.searchMode = "exact"
               => \A ef \in EfSearchVals :
                      qRequest = [ SearchParams(qFilter, ef, "exact", 10)
                                     EXCEPT !.hnsw_ef = UndefinedNum ]

\* an exact search was requested with an efSearch of 64
C22_Witness ==
    /\ qRequest # NoRequest
    /\ qSearchArgs = [efSearch |-> 64, searchMode |-> "exact"]
    /\ qRequest.exact
    /\ qRequest.hnsw_ef = UndefinedNum

----------------------------------------------------------------------------
(* The context rendered by the router's aggregator                         *)

\* how many times one of the labels is printed in a context
TimesPrinted(context, labels) ==
    Cardinality({p \in 1..Len(context) : context[p] \in labels})

\* how many of the documents carry the field
DocumentsWith(documents, field) ==
    Cardinality({i \in 1..Len(documents) :
                    Truthy(documents[i].payload[field])})

\* the value is printed somewhere in the context
Printed(context, value) ==
    \E p \in 1..(Len(context) - Len(value) + 1) :
        SubSeq(context, p, p + Len(value) - 1) = value

\* C23: in the context of a semantic query every record is a numbered
\* block; name and price are always printed, and each of category,
\* description, extra description, origin, color and URL is printed exactly
\* when the payload has it, with no placeholder for an absent field.
C23_OptionalFieldsWhenPresent ==
    rContext # << >> =>
        /\ TimesPrinted(rContext, {"[Document ", "Product "})
               = Len(rDocuments)
        /\ TimesPrinted(rContext, {"\nCategory: ", "Subcategory: "})
               = DocumentsWith(rDocuments, "subcategory")
        /\ TimesPrinted(rContext, {"\nURL: ", "URL: "})
               = DocumentsWith(rDocuments, "url")
        /\ \A i \in 1..Len(rDocuments) :
              \A field \in {"description", "extra_description", "mensei",
                            "renk"} :
                  Truthy(rDocuments[i].payload[field])
                      => Printed(rContext, rDocuments[i].payload[field])

----------------------------------------------------------------------------
(* The router reads the payload of the active mode only                    *)

\* the fields of a classification that belong to its mode
ActivePayload(c) ==
    CASE c.mode = QueryMode_DIRECT -> <<c.sql>>
      [] c.mode = QueryMode_SEMANTIC ->
             <<c.semantic_type, c.category, c.product_id, c.ef_search,
               c.distance_metric, c.search_mode>>
      [] c.mode = QueryMode_DECLINED -> <<c.message>>
      [] OTHER -> << >>

\* two finished calls of the same entry point whose classifications have
\* the same mode and the same payload for it, and whose other collaborators
\* answered alike wherever both asked them
AlikeOnActivePayload(i, j) ==
    /\ cpc[i] = "done" /\ cpc[j] = "done"
    /\ cEntry[i] = cEntry[j]
    /\ cResponses[i].classify.kind = "object"
    /\ cResponses[j].classify.kind = "object"
    /\ LET ci == cResponses[i].classify.value
           cj == cResponses[j].classify.value
       IN  /\ ci.mode = cj.mode
           /\ ActivePayload(ci) = ActivePayload(cj)
    /\ \A op \in {"sql", "embed", "search", "answer"} :
           \/ cResponses[i][op] = cResponses[j][op]
           \/ "pending" \in {cResponses[i][op], cResponses[j][op]}
    /\ "pending" \notin {cResponses[i].search, cResponses[j].search}
           => cResponses[i].documents = cResponses[j].documents

\* C24: two query-processing calls whose classifications have the same mode
\* and agree on that mode's payload (sql for direct; granularity, category,
\* identifier and search tuning for semantic; message for declined; nothing
\* for non_rag) make the same collaborator calls and return the same
\* answer, whatever the other payload fields hold.
C24_OnlyActivePayloadRead ==
    \A i, j \in Calls :
        AlikeOnActivePayload(i, j)
            => /\ cResult[i] = cResult[j]
               /\ cCalls[i] = cCalls[j]

\* two non_rag calls of processQuery, one classification bare and one with
\* every other field filled in, both answered by the model
C24_Witness ==
    /\ AlikeOnActivePayload("a", "b")
    /\ cEntry["a"] = "processQuery"
    /\ cResponses["a"].classify.value.mode = QueryMode_NON_RAG
    /\ cResponses["a"].classify.value.message = Undefined
    /\ cResponses["b"].classify.value.message # Undefined
    /\ cResponses["b"].classify.value.sql # Undefined
    /\ cResult["a"] = [k |-> "returned", value |-> LlmText]
    /\ Len(cCalls["a"]) = 2

----------------------------------------------------------------------------
(* OpenAIService: which path a message takes, and the thread it goes to    *)

\* C25: sendMessage routes a message to the ProductQueryService only when
\* Qdrant is configured and the connection test started by the constructor
\* has completed successfully; while the test is pending, after it failed,
\* and without Qdrant, the message takes the Assistant API path.
C25_PqsOnlyWhenConnected ==
    [][\A i \in Calls :
          (sPath[i] = "none" /\ sPath'[i] # "none")
              => (sPath'[i] = "pqs"
                     <=> (sConfigured /\ connectionTest = "ok"))]_vars

\* C30: all messages sent through one instance go to a single thread: over
\* any interleaving of sendMessage calls createThread runs at most once,
\* threadId, once set, never changes, and every call is made on that thread.
C30_SingleThread ==
    /\ Len(sThreads) <= 1
    /\ \A i, j \in Calls :
          \A x \in sIssued[i], y \in sIssued[j] : x.thread = y.thread

----------------------------------------------------------------------------
(* POST /api/chat                                                          *)

\* C26: a chat request that carries a message but no assistantId is still
\* processed with the server-side Assistant ID: it is not answered 400, and
\* the OpenAI calls are made for it.
C26_MissingAssistantIdProcessed ==
    (bRequest.message /\ ~bRequest.assistantId /\ bpc = "responded")
        => /\ bResponses[1].status # 400
           /\ "runs.create" \in bCalls

\* the status the handler answers with when it is done
StatusExplained ==
    bpc = "responded" =>
        LET status == bResponses[1].status
        IN  /\ status \in {200, 400, 404, 500, 504}
            /\ status = 400 <=> (~bRequest.message \/ ~bRequest.assistantId)
            /\ status = 400 => bCalls = {}
            /\ status = 504
                  => /\ bElapsed > 30000
                     /\ bRunStatus \notin {"completed", "failed"}
            /\ status = 200 => bRunStatus = "completed" /\ bMessages = "text"
            /\ status = 404 => bRunStatus = "completed" /\ bMessages = "none"
            /\ (bRunStatus = "failed" /\ bResponses[1].error # "Internal server error")
                  => status = 500
            /\ (status = 500 /\ bResponses[1].error = "Assistant run failed")
                  => bRunStatus = "failed"

\* C29: every POST /api/chat request eventually receives exactly one HTTP
\* response and never a second one: the poll loop ends when the run is
\* completed (200 with the assistant message, 404 when there is none), when
\* it has failed (500), or once 30 seconds have elapsed (504); a missing
\* message is answered 400 before any OpenAI call; a rejected OpenAI call
\* is answered 500.
C29_RespondsExactlyOnce ==
    /\ <>[](bpc = "responded" /\ Len(bResponses) = 1)
    /\ [](Len(bResponses) <= 1)
    /\ [](Len(bResponses) = 1 <=> bpc = "responded")
    /\ [](~bRequest.message => bCalls = {})
    /\ []StatusExplained

\* the run never completed and the handler answered 504 after 30 seconds
C29_Witness ==
    /\ bpc = "responded"
    /\ bResponses = <<[status |-> 504, error |-> "Request timed out"]>>
    /\ bElapsed > 30000
    /\ bRunStatus = "in_progress"
    /\ "runs.retrieve" \in bCalls

----------------------------------------------------------------------------
(* Recommendations and the collection                                      *)

\* C27: getProductRecommendations(productId, limit) returns at most `limit`
\* products and none of them is the product identified by productId,
\* whatever the index holds.
C27_AtMostLimitWithoutOriginal ==
    gResult.k = "return" =>
        /\ Len(gResult.value) <= gLimit
        /\ ~InRanking(gProductId, gResult.value)

\* C28: after createCollection returns without error the collection exists
\* with a vector size equal to vectorSize, also when reading the existing
\* collection's info failed.
C28_CollectionHasVectorSize ==
    kResult = "returned" => kCollection = Present(kVectorSize)
====
